---- MODULE Spec2Model ----
(***************************************************************************)
(* Model of the custom-tools notebook of ai-agents-crash-course:           *)
(* the environment-loading cell, the LLM configuration cell, the           *)
(* CurrencyConverterTool class and the crew that invokes its _run method.  *)
(*                                                                         *)
(* Numbers.  Python floats are modelled in decimal fixed point: an amount  *)
(* is a count of hundredths (c), a conversion rate a count of              *)
(* ten-thousandths, so amount * rate is a count of millionths.  A product  *)
(* that lies exactly half-way between two hundredths is rendered by        *)
(* format(x, ".2f") as one of its two neighbours, depending on the binary  *)
(* representation of the operands; the model allows both.                  *)
(* Strings are TLA+ strings, built with \o as the f-strings build them.    *)
(***************************************************************************)
EXTENDS Integers, Sequences, FiniteSets, TLC

(* ---------------------------- bounds ----------------------------------- *)
\* Largest number of tool invocations the agent makes during one kickoff.
MaxCalls == 2

(* ------------------------- python values ------------------------------- *)
\* Optional values: <<>> is None, <<v>> is the value v.
None == <<>>
Some(v) == <<v>>

\* bool(x) of an Optional[str]: None and "" are falsy.
Truthy(o) == o # None /\ o[1] # ""

\* str(None) is "None"; str(s) is s.
PyStr(o) == IF o = None THEN "None" ELSE o[1]

Abs(n) == IF n < 0 THEN 0 - n ELSE n

Digit(d) ==
    CASE d = 0 -> "0" [] d = 1 -> "1" [] d = 2 -> "2" [] d = 3 -> "3"
      [] d = 4 -> "4" [] d = 5 -> "5" [] d = 6 -> "6" [] d = 7 -> "7"
      [] d = 8 -> "8" [] d = 9 -> "9"

RECURSIVE NatStr(_)
NatStr(n) == IF n < 10 THEN Digit(n) ELSE NatStr(n \div 10) \o Digit(n % 10)

\* str(i) of a Python int i.
IntStr(i) == IF i < 0 THEN "-" \o NatStr(0 - i) ELSE NatStr(i)

\* FloatStr with a whole float printed as an int is printed ("100").
FloatStrAsInt(c) ==
    LET m == Abs(c)
        f == m % 100
        frac == IF f % 10 = 0 THEN Digit(f \div 10)
                ELSE Digit(f \div 10) \o Digit(f % 10)
    IN  (IF c < 0 THEN "-" ELSE "") \o NatStr(m \div 100)
            \o (IF f = 0 THEN "" ELSE "." \o frac)

\* str(x) of a Python float x = c / 100: the shortest repr, which keeps at
\* least one fractional digit ("100.0", "2.5", "0.01").
FloatStr(c) ==
    LET m == Abs(c)
        w == m \div 100
        f == m % 100
        frac == IF f % 10 = 0 THEN Digit(f \div 10)
                ELSE Digit(f \div 10) \o Digit(f % 10)
    IN  (IF c < 0 THEN "-" ELSE "") \o NatStr(w) \o "." \o frac

\* An amount as _run receives it: a Python int (is_int) or a float, of value
\* c / 100.
IntAmount(n) == [is_int |-> TRUE, c |-> 100 * n]
FloatAmount(c) == [is_int |-> FALSE, c |-> c]

\* f"{amount}"
AmountStr(a) == IF a.is_int THEN IntStr(a.c \div 100) ELSE FloatStr(a.c)

\* RoundedHundredths truncating instead of rounding.
RoundedHundredthsTruncated(p) == { Abs(p) \div 10000 }

\* The hundredths format(x, ".2f") may print for x = p / 10^6: the nearest
\* one, and both neighbours when x is exactly half-way.
RoundedHundredths(p) ==
    LET m == Abs(p)
        q == m \div 10000
        r == m % 10000
    IN  IF r < 5000 THEN {q} ELSE IF r > 5000 THEN {q + 1} ELSE {q, q + 1}

\* The text of h hundredths with sign, two decimals always ("91.00", "-0.00").
TwoDecimals(neg, h) ==
    (IF neg THEN "-" ELSE "") \o NatStr(h \div 100) \o "."
        \o Digit((h % 100) \div 10) \o Digit(h % 10)

\* f"{converted_amount:.2f}" for converted_amount = p / 10^6.
Format2f(p) == { TwoDecimals(p < 0, h) : h \in RoundedHundredths(p) }

(* --------------------------- environment ------------------------------- *)
EnvVars == {"OLLAMA_API_BASE", "EXCHANGE_RATE_API_KEY"}

\* The value a variable has when the operator has configured it.
Configured(v) == IF v = "OLLAMA_API_BASE" THEN "http://localhost:11434" ELSE "k3y"

\* os.getenv(name): the value, or None when the variable is not set.
os_getenv(e, name) == e[name]

\* load_dotenv(): variables of the .env file are added to the process
\* environment; variables already set are not overridden.
load_dotenv(e, file) == [v \in EnvVars |-> IF e[v] # None THEN e[v] ELSE file[v]]

(* ----------------------- the rate service ------------------------------ *)
\* Currency codes the service knows, and the strings the agent may pass
\* ("DOLLARS" and "eur" are not ISO-4217 codes).
ServiceCodes == {"USD", "EUR"}
FromCodes == {"USD", "DOLLARS"}
ToCodes == {"USD", "EUR", "eur"}

\* Conversion rates, in ten-thousandths: 0.91 and 0.5.
Rates == {9100, 5000}

\* The conversion_rates maps a body may carry.
RateMaps == UNION { [D -> Rates] : D \in SUBSET ServiceCodes }

NoRates == [c \in {} |-> 0]

\* What requests.get(url) gives: net = "error" is a raised network
\* exception; otherwise a response with a status code and a body, which is
\* parseable JSON or not, and if so has a conversion_rates key or not.
HttpResponse(st, js, has, m) ==
    [net |-> "ok", status |-> st, json |-> js, has_rates |-> has, rates |-> m]

NetworkError ==
    [net |-> "error", status |-> 0, json |-> FALSE, has_rates |-> FALSE, rates |-> NoRates]

Bodies200 ==
    { HttpResponse(200, FALSE, FALSE, NoRates), HttpResponse(200, TRUE, FALSE, NoRates) }
        \cup { HttpResponse(200, TRUE, TRUE, m) : m \in RateMaps }

BodiesOther ==
    { HttpResponse(st, FALSE, FALSE, NoRates) : st \in {201, 404} }
        \cup { HttpResponse(st, TRUE, FALSE, NoRates) : st \in {201, 404} }
        \cup { HttpResponse(st, TRUE, TRUE, [c \in {"EUR"} |-> 9100]) : st \in {201, 404} }

Responses == {NetworkError} \cup Bodies200 \cup BodiesOther

(* ---------------------- CurrencyConverterTool -------------------------- *)
\* Amounts the agent may pass: the ints 0 and 100, and the floats 0.0,
\* 100.0, 0.01 and -2.5.
Amounts == { IntAmount(0), IntAmount(100), FloatAmount(0), FloatAmount(10000),
             FloatAmount(1), FloatAmount(0 - 250) }

\* url = f"https://v6.exchangerate-api.com/v6/{self.api_key}/latest/{from_currency}"
Url(key, from_currency) ==
    "https://v6.exchangerate-api.com/v6/" \o PyStr(key) \o "/latest/" \o from_currency

Return(s) == [kind |-> "return", type |-> "str", value |-> s]
Raise(t) == [kind |-> "raise", type |-> t, value |-> ""]

\* GetRaisedOutcome with the exception caught and reported in-band.
GetRaisedOutcomeCaught == Return("Failed to fetch exchange rates.")

\* requests.get(url) raising: nothing in _run catches it.
GetRaisedOutcome == Raise("ConnectionError")

\* StatusFailed testing for server errors only.
StatusFailedServerOnly(response) == response.status >= 500

\* StatusFailed accepting every 2xx status.
StatusFailedNon2xx(response) == response.status < 200 \/ response.status > 299

\* if response.status_code != 200
StatusFailed(response) == response.status # 200

\* StatusFailedOutcome as response.raise_for_status() would give it.
StatusFailedOutcomeRaises == Raise("HTTPError")

\* return "Failed to fetch exchange rates."
StatusFailedOutcome == Return("Failed to fetch exchange rates.")

\* The body parsed whatever the status.
BodyParsedAlways(response) == response.net = "ok"

\* data = response.json() is reached: the request returned and the status
\* test did not return before it.
BodyParsed(response) == response.net = "ok" /\ ~StatusFailed(response)

\* data = response.json() on a body that is not JSON: nothing catches it.
JsonFailedOutcome == Raise("JSONDecodeError")

\* "conversion_rates" not in data or to_currency not in data["conversion_rates"]
CodeMissing(data, to_currency) ==
    ~data.has_rates \/ to_currency \notin DOMAIN data.rates

\* CodeMissingOutcome without the code echoed.
CodeMissingOutcomeGeneric(to_currency) == Return("Invalid currency code")

\* CodeMissingOutcome with the code stripped and upper-cased.
CodeMissingOutcomeNormalised(to_currency) ==
    Return("Invalid currency code: "
              \o (IF to_currency \in {"eur", " EUR"} THEN "EUR" ELSE to_currency))

\* return f"Invalid currency code: {to_currency}"
CodeMissingOutcome(to_currency) == Return("Invalid currency code: " \o to_currency)

\* Converted with + written for *.
ConvertedSum(amount, rate) == amount.c * 10000 + rate

\* converted_amount = amount * rate, in millionths.
Converted(amount, rate) == amount.c * rate

\* The return statement of the success path.
SuccessText(amount, from_currency, to_currency, conv) ==
    AmountStr(amount) \o " " \o from_currency \o " is equivalent to "
        \o conv \o " " \o to_currency \o "."

\* run with a range check and a cross-field check before the request.
runChecked(amount, from_currency, to_currency, response) ==
    IF amount.c < 0 \/ from_currency = to_currency
    THEN { Return("Invalid input.") }
    ELSE IF response.net = "error" THEN { GetRaisedOutcome }
    ELSE IF StatusFailed(response) THEN { StatusFailedOutcome }
    ELSE IF ~response.json THEN { JsonFailedOutcome }
    ELSE IF CodeMissing(response, to_currency) THEN { CodeMissingOutcome(to_currency) }
    ELSE { Return(SuccessText(amount, from_currency, to_currency, conv)) :
               conv \in Format2f(Converted(amount, response.rates[to_currency])) }

\* The outcomes of _run(amount, from_currency, to_currency) when
\* requests.get answers with response.
run(amount, from_currency, to_currency, response) ==
    IF response.net = "error" THEN { GetRaisedOutcome }
    ELSE IF StatusFailed(response) THEN { StatusFailedOutcome }
    ELSE IF ~response.json THEN { JsonFailedOutcome }
    ELSE IF CodeMissing(response, to_currency) THEN { CodeMissingOutcome(to_currency) }
    ELSE LET rate == response.rates[to_currency]
         IN  { Return(SuccessText(amount, from_currency, to_currency, conv)) :
                   conv \in Format2f(Converted(amount, rate)) }

\* GetsIssued with one retry after a failed request.
GetsIssuedWithRetry(response) ==
    IF response.net = "error" \/ response.status # 200 THEN 2 ELSE 1

\* The number of requests.get calls one _run makes.
GetsIssued(response) == 1

(* ---------------------- CurrencyConverterInput ------------------------- *)
\* A raw argument of a tool invocation: a JSON int or float of value
\* c / 100, or a JSON string, which is the text of a number or not.
RawInt(n) == [type |-> "int", c |-> 100 * n, numeric |-> TRUE]
RawFloat(c) == [type |-> "float", c |-> c, numeric |-> TRUE]
RawNumericStr(c) == [type |-> "str", c |-> c, numeric |-> TRUE]
RawOtherStr == [type |-> "str", c |-> 0, numeric |-> FALSE]

\* The arguments the agent hands to the framework; None is a field left out.
RawArgs ==
    { [amount |-> a, from_currency |-> f, to_currency |-> t] :
        a \in {None, Some(RawInt(100)), Some(RawNumericStr(10000)), Some(RawOtherStr)},
        f \in {None, Some("USD")},
        t \in {None, Some("EUR")} }

\* AmountValid with the type check left out.
AmountValidAnyType(a) == a # None

\* amount: float = Field(...): required; ints, floats and the text of a
\* number are accepted.
AmountValid(a) == a # None /\ (a[1].type \in {"int", "float"} \/ a[1].numeric)

\* from_currency / to_currency: str = Field(...): required.
CodeValid(c) == c # None

\* CurrencyConverterInput(**raw) validates.
SchemaValid(raw) ==
    /\ AmountValid(raw.amount)
    /\ CodeValid(raw.from_currency)
    /\ CodeValid(raw.to_currency)

\* The amount of the validated model: always a float.
SchemaAmount(a) == FloatAmount(a[1].c)

(* ------------------------------ state ---------------------------------- *)
VARIABLES
    env,              \* os.environ
    dotenv,           \* the .env file
    pc,               \* the next cell of the notebook, "fatal" or "done"
    error,            \* the exception that stopped the run, "" if none
    OLLAMA_API_BASE,  \* the notebook global of that name
    llm,              \* the LLM object, None before it is constructed
    api_key,          \* CurrencyConverterTool.api_key, the class default
    tool,             \* the CurrencyConverterTool instance of the agent
    nCalls,           \* invocations of _run so far
    nGets,            \* HTTP GET requests issued so far
    last,             \* the latest invocation of _run, None before the first; raw
                      \* holds the arguments given to the framework, if any
    rejected          \* invocations stopped by the input schema so far

toolVars == <<env, dotenv, pc, error, OLLAMA_API_BASE, llm, api_key, tool, nCalls, nGets,
              last, rejected>>

(* -------------------- state of the crews notebook ---------------------- *)
VARIABLES
    cell,             \* the next cell of the crews notebook, "idle" if not run
    ns,               \* the notebook globals that hold agents, tasks and crews
    oid,              \* the number of framework objects constructed so far
    trace,            \* the task events of the kickoff in progress
    running,          \* the index of the task in progress, 0 if none
    yaml_file,        \* the lines of config.yaml
    fh,               \* the position of the latest file handle on config.yaml
    config,           \* the notebook global config, None before the load
    loads,            \* the number of times the load cell has run
    built,            \* the globals the latest definitions cell has bound, in order
    nb_error,         \* the exception that stopped the crews notebook, "" if none
    nb_llm            \* the global llm of the crews notebook, None before it is set

crewVars == <<cell, ns, oid, trace, running, yaml_file, fh, config, loads, built, nb_error,
              nb_llm>>

\* The globals of the crews notebook that hold framework objects.
AgentNames == {"senior_technical_writer", "research_analyst", "code_reviewer",
               "legal_reviewer", "summarizer_agent", "research_agent",
               "fact_checker_agent", "summarization_agent"}
TaskNames == {"research_task", "summarization_task", "fact_checking_task"}
Names == AgentNames \cup TaskNames \cup {"research_crew"}

\* The crews notebook is not run.
CrewIdle ==
    /\ cell = "idle"
    /\ ns = [n \in Names |-> None]
    /\ oid = 0
    /\ trace = <<>>
    /\ running = 0
    /\ yaml_file = <<>>
    /\ fh = 0
    /\ config = None
    /\ loads = 0
    /\ built = <<>>
    /\ nb_error = ""
    /\ nb_llm = None

(* ------------------- state of the decorator registry ------------------- *)
VARIABLES
    reg_class,        \* the methods of the class ResearchCrew, in declaration order
    registry,         \* the buckets the class decorator has collected, None before
    instances,        \* the instances constructed so far, in construction order
    invoked,          \* the invocations of tagged methods so far
    pipeline          \* the pipeline the crew method assembled last, None before

regVars == <<reg_class, registry, instances, invoked, pipeline>>

\* No class is decorated.
RegIdle ==
    /\ reg_class = <<>>
    /\ registry = None
    /\ instances = <<>>
    /\ invoked = <<>>
    /\ pipeline = None

(* ------------- record of the invocations of the tool ------------------- *)
VARIABLES
    first,            \* the first invocation of _run and the tool as it then was
    varied            \* whether an invocation differed from the first

repVars == <<first, varied>>

\* No invocation is recorded.
RepIdle ==
    /\ first = None
    /\ varied = FALSE

(* ----------------- runs of the environment audit ----------------------- *)
VARIABLES
    first_audit,      \* the first run of check_environment_variables
    last_audit,       \* the latest run
    nAudits           \* number of runs

auditVars == <<first_audit, last_audit, nAudits>>

\* The audit has not been run.
AuditIdle ==
    /\ first_audit = None
    /\ last_audit = None
    /\ nAudits = 0

(* ------------------- the LLM connection test --------------------------- *)
VARIABLES
    conn_pc,          \* position in test_llm_connection
    conn_llm,         \* the LLM object under test
    provider,         \* the detected provider
    branch,           \* the provider-specific branch taken
    printed,          \* the lines printed by the call in progress
    events,           \* the requests and LLM calls of the call in progress
    nTests            \* number of calls of test_llm_connection

connVars == <<conn_pc, conn_llm, provider, branch, printed, events, nTests>>

\* test_llm_connection has not been called.
ConnIdle ==
    /\ conn_pc = "idle"
    /\ conn_llm = None
    /\ provider = ""
    /\ branch = ""
    /\ printed = <<>>
    /\ events = <<>>
    /\ nTests = 0

(* -------------------------- the save cell ------------------------------ *)
VARIABLES
    save_pc,          \* position in the save cell
    crew_response,    \* the global response, None while it is not bound
    build_exists,     \* whether the directory ../build is there
    disk,             \* what ../build/output.md holds, None while it is not there
    overwritten,          \* what the file held when it was last opened
    f_handle,         \* the file object f, None while it is not bound
    nSaves            \* number of completed runs of the save cell

saveVars == <<save_pc, crew_response, build_exists, disk, overwritten, f_handle, nSaves>>

\* The save cell and the writer crew have not been run.
SaveIdle ==
    /\ save_pc = "ready"
    /\ crew_response = None
    /\ build_exists = TRUE
    /\ disk = None
    /\ overwritten = None
    /\ f_handle = None
    /\ nSaves = 0

\* The variables outside each component.
notToolVars == <<crewVars, regVars, repVars, auditVars, connVars, saveVars>>
notCrewVars == <<toolVars, regVars, repVars, auditVars, connVars, saveVars>>
notRegVars == <<toolVars, crewVars, repVars, auditVars, connVars, saveVars>>
notRepVars == <<crewVars, regVars, auditVars, connVars, saveVars>>
notAuditVars == <<toolVars, crewVars, regVars, repVars, connVars, saveVars>>
notConnVars == <<toolVars, crewVars, regVars, repVars, auditVars, saveVars>>
notSaveVars == <<toolVars, crewVars, regVars, repVars, auditVars, connVars>>

vars == <<toolVars, crewVars, regVars, repVars, auditVars, connVars, saveVars>>

\* The other components are not run.
NotToolIdle == CrewIdle /\ RegIdle /\ RepIdle /\ AuditIdle /\ ConnIdle /\ SaveIdle

EnvValues(v) == {None, Some(""), Some(Configured(v))}

\* The .env file: absent, or the file of a configured installation.
DotenvFiles == { [v \in EnvVars |-> None], [v \in EnvVars |-> Some(Configured(v))] }

Init ==
    /\ env \in { e \in [EnvVars -> UNION {EnvValues(v) : v \in EnvVars}] :
                    \A v \in EnvVars : e[v] \in EnvValues(v) }
    /\ dotenv \in DotenvFiles
    /\ pc = "load_env"
    /\ error = ""
    /\ OLLAMA_API_BASE = None
    /\ llm = None
    /\ api_key = None
    /\ tool = None
    /\ nCalls = 0
    /\ nGets = 0
    /\ last = None
    /\ rejected = 0
    /\ NotToolIdle

(* ------------------------------ cells ---------------------------------- *)
\* Cell "Load Environment Variables": load_dotenv(), then the check of
\* OLLAMA_API_BASE, which raises ValueError when it is unset or empty.
LoadEnv ==
    /\ pc = "load_env"
    /\ LET e == load_dotenv(env, dotenv)
           base == os_getenv(e, "OLLAMA_API_BASE")
       IN  /\ env' = e
           /\ OLLAMA_API_BASE' = base
           /\ IF ~Truthy(base)
              THEN /\ pc' = "fatal"
                   /\ error' = "ValueError: OLLAMA_API_BASE is not set in the .env file"
              ELSE /\ pc' = "configure_llm"
                   /\ error' = error
    /\ UNCHANGED <<dotenv, llm, api_key, tool, nCalls, nGets, last>>
    /\ UNCHANGED <<rejected, notToolVars>>

\* Cell "Configure LLM": llm = LLM(model=..., base_url=OLLAMA_API_BASE).
ConfigureLLM ==
    /\ pc = "configure_llm"
    /\ llm' = Some([model |-> "ollama/gemma3n:latest", base_url |-> OLLAMA_API_BASE[1]])
    /\ pc' = "define_tool"
    /\ UNCHANGED <<env, dotenv, error, OLLAMA_API_BASE, api_key, tool, nCalls, nGets, last>>
    /\ UNCHANGED <<rejected, notToolVars>>

\* Cell "class CurrencyConverterTool": the class body evaluates
\* os.getenv("EXCHANGE_RATE_API_KEY") once, as the default of api_key.
DefineTool ==
    /\ pc = "define_tool"
    /\ api_key' = os_getenv(env, "EXCHANGE_RATE_API_KEY")
    /\ pc' = "define_agent"
    /\ UNCHANGED <<env, dotenv, error, OLLAMA_API_BASE, llm, tool, nCalls, nGets, last>>
    /\ UNCHANGED <<rejected, notToolVars>>

\* Cells "currency_analyst = Agent(..., tools=[CurrencyConverterTool()])",
\* "currency_conversion_task = Task(...)" and "crew = Crew(...)": the tool
\* instance takes the class default of api_key.
DefineAgent ==
    /\ pc = "define_agent"
    /\ tool' = Some([name |-> "Currency Converter Tool",
                     description |-> "Converts an amount from one currency to another.",
                     args_schema |-> "CurrencyConverterInput",
                     api_key |-> api_key])
    /\ pc' = "kickoff"
    /\ UNCHANGED <<env, dotenv, error, OLLAMA_API_BASE, llm, api_key, nCalls, nGets, last>>
    /\ UNCHANGED <<rejected, notToolVars>>

\* _run keeping the key of its latest request in the tool.
ToolAfterRunKeepingUrl(t, from_currency) ==
    Some([t[1] EXCEPT !.api_key = Some(PyStr(t[1].api_key) \o "/latest/" \o from_currency)])

\* The tool after _run: _run assigns no attribute of self.
ToolAfterRun(t, from_currency) == t

\* One _run of the tool, with the answer of the rate service to its request.
RunStep(amount, from_currency, to_currency, response) ==
    /\ pc = "kickoff"
    /\ \E outcome \in run(amount, from_currency, to_currency, response) :
          last' = Some([amount |-> amount, from_currency |-> from_currency,
                        to_currency |-> to_currency,
                        url |-> Url(tool[1].api_key, from_currency),
                        response |-> response, outcome |-> outcome,
                        parsed |-> BodyParsed(response), raw |-> None])
    /\ nCalls' = nCalls + 1
    /\ nGets' = nGets + GetsIssued(response)
    /\ tool' = ToolAfterRun(tool, from_currency)
    /\ UNCHANGED <<env, dotenv, pc, error, OLLAMA_API_BASE, llm, api_key, rejected>>

\* During crew.kickoff the agent invokes the tool: one _run, with the
\* answer of the rate service to its request.
Run(amount, from_currency, to_currency, response) ==
    /\ nCalls + rejected < MaxCalls
    /\ RunStep(amount, from_currency, to_currency, response)
    /\ UNCHANGED notToolVars

\* During crew.kickoff the agent invokes the tool through the framework:
\* the arguments validate against args_schema, and _run is called with the
\* validated fields.
Invoke(raw, response) ==
    /\ pc = "kickoff"
    /\ nCalls + rejected < MaxCalls
    /\ SchemaValid(raw)
    /\ \E outcome \in run(SchemaAmount(raw.amount), raw.from_currency[1],
                           raw.to_currency[1], response) :
          last' = Some([amount |-> SchemaAmount(raw.amount),
                        from_currency |-> raw.from_currency[1],
                        to_currency |-> raw.to_currency[1],
                        url |-> Url(tool[1].api_key, raw.from_currency[1]),
                        response |-> response, outcome |-> outcome,
                        parsed |-> BodyParsed(response), raw |-> Some(raw)])
    /\ nCalls' = nCalls + 1
    /\ nGets' = nGets + GetsIssued(response)
    /\ tool' = ToolAfterRun(tool, raw.from_currency[1])
    /\ UNCHANGED <<env, dotenv, pc, error, OLLAMA_API_BASE, llm, api_key, rejected>>
    /\ UNCHANGED notToolVars

\* An invocation through the framework whose arguments do not validate:
\* the validation error is raised before _run is called.
Reject(raw) ==
    /\ pc = "kickoff"
    /\ nCalls + rejected < MaxCalls
    /\ ~SchemaValid(raw)
    /\ rejected' = rejected + 1
    /\ UNCHANGED <<env, dotenv, pc, error, OLLAMA_API_BASE, llm, api_key, tool,
                   nCalls, nGets, last>>
    /\ UNCHANGED notToolVars

\* crew.kickoff returns and the response is displayed.
Finish ==
    /\ pc = "kickoff"
    /\ pc' = "done"
    /\ UNCHANGED <<env, dotenv, error, OLLAMA_API_BASE, llm, api_key, tool, nCalls, nGets, last>>
    /\ UNCHANGED <<rejected, notToolVars>>

Next ==
    \/ LoadEnv
    \/ ConfigureLLM
    \/ DefineTool
    \/ DefineAgent
    \/ \E amount \in Amounts, from_currency \in FromCodes, to_currency \in ToCodes,
          response \in Responses : Run(amount, from_currency, to_currency, response)
    \/ \E raw \in RawArgs, response \in Responses : Invoke(raw, response)
    \/ \E raw \in RawArgs : Reject(raw)
    \/ Finish

Spec == Init /\ [][Next]_vars

(* ------------------------- properties ---------------------------------- *)
\* The service answered 200 with a conversion_rates map that has the code.
RatePresent(response, to_currency) ==
    /\ response.net = "ok"
    /\ response.status = 200
    /\ response.json
    /\ response.has_rates
    /\ to_currency \in DOMAIN response.rates

\* The text of a conversion of l.amount whose value is h hundredths.
ConversionText(l, neg, h) ==
    AmountStr(l.amount) \o " " \o l.from_currency \o " is equivalent to "
        \o TwoDecimals(neg, h) \o " " \o l.to_currency \o "."

\* The outcome of invocation l is the conversion text for a value that is
\* within half a hundredth of amount * r.
ConvertsAt(l, r) ==
    LET p == l.amount.c * r
        q == Abs(p) \div 10000
    IN  \E h \in {q, q + 1} :
            /\ 2 * Abs(h * 10000 - Abs(p)) <= 10000
            /\ l.outcome = Return(ConversionText(l, p < 0, h))

\* C1: when the service answers 200 and its conversion_rates map has
\* to_currency with rate r, _run returns a string whose converted value is
\* amount * r to two decimal places (the nearest hundredth), followed by
\* to_currency.
C1_ConvertedValueTwoDecimals ==
    (last # None /\ RatePresent(last[1].response, last[1].to_currency)) =>
        ConvertsAt(last[1], last[1].response.rates[last[1].to_currency])

\* 0.01 USD at 0.91 is 0.0091 EUR, printed as 0.01.
C1_Witness ==
    /\ last # None
    /\ last[1].amount = FloatAmount(1)
    /\ RatePresent(last[1].response, last[1].to_currency)
    /\ last[1].response.rates[last[1].to_currency] = 9100
    /\ last[1].outcome = Return("0.01 USD is equivalent to 0.01 EUR.")

\* The fixture of C2: 100 as a float, USD to EUR at 0.91.
C2_Fixture(l) ==
    /\ l.amount.c = 10000
    /\ l.from_currency = "USD"
    /\ l.to_currency = "EUR"
    /\ RatePresent(l.response, "EUR")
    /\ l.response.rates["EUR"] = 9100

\* C2 as stated: for the fixture with the amount a float, _run returns
\* exactly "100 USD is equivalent to 91.00 EUR.".
C2_FloatAmountRenderedAs100 ==
    (last # None /\ C2_Fixture(last[1]) /\ ~last[1].amount.is_int) =>
        last[1].outcome = Return("100 USD is equivalent to 91.00 EUR.")

\* C2 amended: for the fixture, the converted value is "91.00" and the
\* amount is rendered "100.0" when it is a float and "100" when it is an int.
C2_FixtureText ==
    (last # None /\ C2_Fixture(last[1])) =>
        last[1].outcome =
            IF last[1].amount.is_int
            THEN Return("100 USD is equivalent to 91.00 EUR.")
            ELSE Return("100.0 USD is equivalent to 91.00 EUR.")

C2_Witness ==
    /\ last # None
    /\ C2_Fixture(last[1])
    /\ ~last[1].amount.is_int
    /\ last[1].outcome.kind = "return"

\* C3: when the service answers with a non-success status, _run returns
\* "Failed to fetch exchange rates." and does not raise.
C3_NonSuccessStatusReturnsFailed ==
    (last # None /\ last[1].response.net = "ok"
        /\ last[1].response.status \notin 200..299) =>
        last[1].outcome = Return("Failed to fetch exchange rates.")

\* A 404 whose body would have had the rate.
C3_Witness ==
    /\ last # None
    /\ last[1].response.status = 404
    /\ last[1].response.has_rates
    /\ last[1].to_currency \in DOMAIN last[1].response.rates
    /\ last[1].outcome.kind = "return"

\* C4: when the service answers 200 and the conversion_rates map lacks
\* to_currency, _run returns "Invalid currency code: " followed by
\* to_currency as given, which is not the string of a failed status.
C4_MissingCodeReturnsInvalid ==
    (last # None /\ last[1].response.net = "ok" /\ last[1].response.status = 200
        /\ last[1].response.json /\ last[1].response.has_rates
        /\ last[1].to_currency \notin DOMAIN last[1].response.rates) =>
        /\ last[1].outcome.kind = "return"
        /\ last[1].outcome.value = "Invalid currency code: " \o last[1].to_currency
        /\ last[1].outcome.value # "Failed to fetch exchange rates."

\* The map has USD only and EUR is asked for.
C4_Witness ==
    /\ last # None
    /\ last[1].response.status = 200
    /\ last[1].response.has_rates
    /\ DOMAIN last[1].response.rates = {"USD"}
    /\ last[1].to_currency = "EUR"
    /\ last[1].outcome.kind = "return"

\* C5: for amount 0 and every rate, a successful _run reports "0.00" in the
\* target currency.
C5_ZeroAmountConvertsToZero ==
    (last # None /\ last[1].amount.c = 0
        /\ RatePresent(last[1].response, last[1].to_currency)) =>
        last[1].outcome =
            Return(AmountStr(last[1].amount) \o " " \o last[1].from_currency
                   \o " is equivalent to 0.00 " \o last[1].to_currency \o ".")

C5_Witness ==
    /\ last # None
    /\ last[1].amount = FloatAmount(0)
    /\ RatePresent(last[1].response, last[1].to_currency)
    /\ last[1].response.rates[last[1].to_currency] = 5000
    /\ last[1].outcome.kind = "return"

\* A failure _run reports: a status other than 200, or a parsed body
\* without the target code.
ReportedFailure(l) ==
    /\ l.response.net = "ok"
    /\ \/ l.response.status # 200
       \/ /\ l.response.json
          /\ (~l.response.has_rates \/ l.to_currency \notin DOMAIN l.response.rates)

\* C6: every value _run returns is a plain string, and both reported
\* failures are returned, not raised.
C6_ReturnsArePlainStrings ==
    last # None =>
        /\ last[1].outcome.kind = "return" => last[1].outcome.type = "str"
        /\ ReportedFailure(last[1]) =>
              (last[1].outcome.kind = "return" /\ last[1].outcome.type = "str")

\* A body without a conversion_rates key, reported in-band.
C6_Witness ==
    /\ last # None
    /\ last[1].response.status = 200
    /\ last[1].response.json
    /\ ~last[1].response.has_rates
    /\ last[1].outcome.kind = "return"
    /\ last[1].outcome.type = "str"

C8_NeverRaises ==
    last # None => (last[1].outcome.kind = "return" /\ last[1].outcome.type = "str")

\* C9: k invocations of _run issue k requests, whatever their outcomes,
\* each to the URL of its own arguments, and a conversion is reported only
\* from the rate of the invocation's own response.
C9_OneGetPerInvocationNoReuse ==
    /\ nGets = nCalls
    /\ last # None =>
          /\ nCalls >= 1
          /\ last[1].url = Url(tool[1].api_key, last[1].from_currency)
          /\ IF RatePresent(last[1].response, last[1].to_currency)
             THEN ConvertsAt(last[1], last[1].response.rates[last[1].to_currency])
             ELSE \/ last[1].outcome.kind = "raise"
                  \/ last[1].outcome.value = "Failed to fetch exchange rates."
                  \/ last[1].outcome.value = "Invalid currency code: " \o last[1].to_currency

\* Two invocations, the second failed: two requests.
C9_Witness ==
    /\ nCalls = 2
    /\ nGets = 2
    /\ last # None
    /\ last[1].response.status = 404

\* The variable is not set once load_dotenv() has run.
Missing(v) == pc # "load_env" /\ env[v] = None

\* C10: if a required variable is missing, execution stops with a fatal
\* error before an object that depends on it is constructed or a request
\* that embeds it is sent: OLLAMA_API_BASE before the LLM, and
\* EXCHANGE_RATE_API_KEY before the tool and its requests.
C10_MissingVariableIsFatal ==
    /\ Missing("OLLAMA_API_BASE") => (pc = "fatal" /\ llm = None)
    /\ Missing("EXCHANGE_RATE_API_KEY") =>
          /\ pc \in {"configure_llm", "define_tool", "fatal"}
          /\ tool = None
          /\ nGets = 0

\* C11: an invocation through the framework whose arguments lack a field
\* or carry an amount that is not numeric never reaches _run: every _run
\* that came through the framework had all three fields and a numeric
\* amount, and every request was issued by a _run.
C11_InvalidInputNeverRuns ==
    /\ (last # None /\ last[1].raw # None) =>
          LET raw == last[1].raw[1]
          IN  /\ raw.amount # None
              /\ raw.from_currency # None
              /\ raw.to_currency # None
              /\ (raw.amount[1].type = "str" => raw.amount[1].numeric)
    /\ nGets <= nCalls
    /\ (last = None) = (nCalls = 0)

\* The only invocation so far was rejected: no _run, no request.
C11_Witness ==
    /\ pc = "kickoff"
    /\ rejected = 1
    /\ nCalls = 0
    /\ nGets = 0
    /\ last = None

\* The ISO-4217 codes among the strings of the model.
IsoCodes == {"USD", "EUR"}

\* C12: _run rejects nothing itself: with a negative amount, a currency
\* string outside ISO-4217 or from_currency equal to to_currency, the
\* request is sent to the URL of from_currency as given, and the result is
\* the one the response decides: the conversion at the rate of the
\* response, the failed-status string, the invalid-code string or the
\* exception of the request or of the parse.
C12_NoChecksInRun ==
    (last # None
        /\ \/ last[1].amount.c < 0
           \/ last[1].from_currency \notin IsoCodes
           \/ last[1].to_currency \notin IsoCodes
           \/ last[1].from_currency = last[1].to_currency) =>
        LET l == last[1]
        IN  /\ nGets >= 1
            /\ l.url = "https://v6.exchangerate-api.com/v6/" \o PyStr(tool[1].api_key)
                          \o "/latest/" \o l.from_currency
            /\ l.response.net = "error" => l.outcome.kind = "raise"
            /\ (l.response.net = "ok" /\ l.response.status # 200) =>
                  l.outcome = Return("Failed to fetch exchange rates.")
            /\ (l.response.net = "ok" /\ l.response.status = 200 /\ ~l.response.json) =>
                  l.outcome.kind = "raise"
            /\ (l.response.net = "ok" /\ l.response.status = 200 /\ l.response.json
                   /\ ~RatePresent(l.response, l.to_currency)) =>
                  l.outcome = Return("Invalid currency code: " \o l.to_currency)
            /\ RatePresent(l.response, l.to_currency) =>
                  ConvertsAt(l, l.response.rates[l.to_currency])

\* -2.5 USD converted to USD at 0.5.
C12_Witness ==
    /\ last # None
    /\ last[1].amount.c < 0
    /\ last[1].from_currency = "USD"
    /\ last[1].to_currency = "USD"
    /\ last[1].outcome = Return("-2.5 USD is equivalent to -1.25 USD.")

\* The three forms of a returned string.
SuccessForm(l) == l.outcome.kind = "return" /\ \E r \in Rates : ConvertsAt(l, r)
FailedForm(l) == l.outcome = Return("Failed to fetch exchange rates.")
InvalidForm(l) == l.outcome = Return("Invalid currency code: " \o l.to_currency)

\* C23: _run returns the success string exactly when the status is 200, the
\* parsed body has conversion_rates and to_currency is a key of it; what it
\* returns is exactly one of the three forms; a 2xx status other than 200
\* gives the failed string, and a 200 body without conversion_rates gives
\* the invalid-code string with to_currency.
C23_SuccessExactlyOn200WithRate ==
    last # None =>
        LET l == last[1]
            r == last[1].response
        IN  /\ SuccessForm(l) <=>
                  (r.net = "ok" /\ r.status = 200 /\ r.json /\ r.has_rates
                      /\ l.to_currency \in DOMAIN r.rates)
            /\ l.outcome.kind = "return" =>
                  Cardinality({f \in {"success", "failed", "invalid"} :
                                  \/ f = "success" /\ SuccessForm(l)
                                  \/ f = "failed" /\ FailedForm(l)
                                  \/ f = "invalid" /\ InvalidForm(l)}) = 1
            /\ (r.net = "ok" /\ r.status >= 200 /\ r.status <= 299 /\ r.status # 200) =>
                  FailedForm(l)
            /\ (r.net = "ok" /\ r.status = 200 /\ r.json /\ ~r.has_rates) =>
                  InvalidForm(l)

\* Status 201 with a body that holds the rate of EUR: the failed string.
C23_Witness ==
    /\ last # None
    /\ last[1].response.status = 201
    /\ last[1].response.has_rates
    /\ last[1].to_currency \in DOMAIN last[1].response.rates
    /\ FailedForm(last[1])

\* C24: when the status is not 200 the body is not parsed, and _run returns
\* the failed string whatever the body is: not JSON, without
\* conversion_rates or without the target code; never the invalid-code
\* string and never an exception.
C24_StatusCheckedBeforeBody ==
    (last # None /\ last[1].response.net = "ok" /\ last[1].response.status # 200) =>
        /\ ~last[1].parsed
        /\ last[1].outcome.kind = "return"
        /\ FailedForm(last[1])
        /\ ~InvalidForm(last[1])

\* Status 404 with a body that is not JSON.
C24_Witness ==
    /\ last # None
    /\ last[1].response.status = 404
    /\ ~last[1].response.json
    /\ ~last[1].parsed
    /\ FailedForm(last[1])

\* The code after stripping blanks and upper-casing.
Normalised(code) == IF code \in {"eur", " EUR"} THEN "EUR" ELSE code

\* C25: a to_currency that is a key of conversion_rates only after
\* upper-casing or stripping is not found: _run returns the invalid-code
\* string with to_currency as it was given.
C25_ExactKeyMatch ==
    (last # None
        /\ last[1].response.net = "ok" /\ last[1].response.status = 200
        /\ last[1].response.json /\ last[1].response.has_rates
        /\ Normalised(last[1].to_currency) \in DOMAIN last[1].response.rates
        /\ Normalised(last[1].to_currency) # last[1].to_currency) =>
        /\ last[1].outcome = Return("Invalid currency code: " \o last[1].to_currency)
        /\ last[1].outcome # Return("Invalid currency code: EUR")

\* " EUR" asked of a map that has EUR.
C25_Witness ==
    /\ last # None
    /\ last[1].to_currency = " EUR"
    /\ last[1].response.status = 200
    /\ "EUR" \in DOMAIN last[1].response.rates
    /\ last[1].outcome = Return("Invalid currency code:  EUR")

(* ------------------- repeated invocations of _run ---------------------- *)
MaxRepeat == 3

\* The responses of the repeated invocations; with the amounts 100 and
\* 100.0 no product is an exact half of a hundredth.
RepeatResponses ==
    { NetworkError, HttpResponse(404, FALSE, FALSE, NoRates),
      HttpResponse(200, TRUE, TRUE, [c \in {"EUR"} |-> 9100]),
      HttpResponse(200, TRUE, TRUE, [c \in {"EUR"} |-> 5000]) }

\* The arguments and the response of an invocation.
CallInputs(l) == <<l.amount, l.from_currency, l.to_currency, l.response>>

\* One _run during crew.kickoff, with the first invocation kept on record.
RunRecorded(amount, from_currency, to_currency, response) ==
    /\ nCalls < MaxRepeat
    /\ RunStep(amount, from_currency, to_currency, response)
    /\ first' = IF first = None THEN Some([call |-> last'[1], tool |-> tool]) ELSE first
    /\ varied' = (varied \/ (first # None /\ CallInputs(last'[1]) # CallInputs(first[1].call)))
    /\ UNCHANGED notRepVars

NextRepeat ==
    \/ LoadEnv
    \/ ConfigureLLM
    \/ DefineTool
    \/ DefineAgent
    \/ \E amount \in {IntAmount(100), FloatAmount(10000)},
          to_currency \in {"EUR", "eur", " EUR"},
          response \in RepeatResponses : RunRecorded(amount, "USD", to_currency, response)

SpecRepeat == Init /\ [][NextRepeat]_vars

\* C26: after any number of invocations the tool has the name, description,
\* args_schema and api_key it had at the first one, and an invocation with
\* the arguments and the response of the first one has the outcome of the
\* first one, whatever was invoked in between.
C26_RunLeavesToolAndRepeats ==
    (first # None /\ last # None) =>
        /\ tool # None
        /\ tool[1].name = first[1].tool[1].name
        /\ tool[1].description = first[1].tool[1].description
        /\ tool[1].args_schema = first[1].tool[1].args_schema
        /\ tool[1].api_key = first[1].tool[1].api_key
        /\ CallInputs(last[1]) = CallInputs(first[1].call) =>
              /\ last[1].outcome = first[1].call.outcome
              /\ last[1].url = first[1].call.url

\* A conversion, then another invocation, then the first one again.
C26_Witness ==
    /\ nCalls = 3
    /\ varied
    /\ first # None
    /\ CallInputs(last[1]) = CallInputs(first[1].call)
    /\ last[1].outcome = Return("100 USD is equivalent to 91.00 EUR.")
    /\ first[1].call.outcome = Return("100 USD is equivalent to 91.00 EUR.")

(* ======================= the crews notebook ============================ *)
\* An argument of a constructor: a string literal of the cell, or a read
\* config[section][name][field].
Lit(text) == [lit |-> TRUE, text |-> text, path |-> <<>>]
Ref(section, name, field) == [lit |-> FALSE, text |-> "", path |-> <<section, name, field>>]

\* name = Agent(role=, goal=, backstory=, [llm=llm,] [tools=[...]]); passes_llm
\* tells whether the statement carries llm=llm.
AgentStatement(var, role, goal, backstory, passes_llm, tools) ==
    [var |-> var, kind |-> "agent", texts |-> <<role, goal, backstory>>,
     passes_llm |-> passes_llm, agent |-> "", tools |-> tools]

\* name = Task(description=, agent=, [tools=[...],] expected_output=).
TaskStatement(var, description, agent, tools, expected_output) ==
    [var |-> var, kind |-> "task", texts |-> <<description, expected_output>>,
     passes_llm |-> FALSE, agent |-> agent, tools |-> tools]

DefineAgentsStatements ==
    << AgentStatement("senior_technical_writer",
           Lit("Senior Technical Writer"),
           Lit("Craft clear, engaging, and well-structured\n            technical content based on research findings"),
           Lit("You are an experienced technical writer\n                with expertise in simplifying complex\n                concepts, structuring content for readability,\n                and ensuring accuracy in documentation."),
           TRUE, <<>>),
       AgentStatement("research_analyst",
           Lit("Senior Research Analyst"),
           Lit("Find, analyze, and summarize information \n            from various sources to support technical \n            and business-related inquiries."),
           Lit("You are a skilled research analyst with expertise \n                in gathering accurate data, identifying key trends, \n                and presenting insights in a structured manner."),
           TRUE, <<>>),
       AgentStatement("code_reviewer",
           Lit("Senior Code Reviewer"),
           Lit("Review code for bugs, inefficiencies, and \n            security vulnerabilities while ensuring adherence \n            to best coding practices."),
           Lit("You are a seasoned software engineer with years of \n                experience in writing, reviewing, and optimizing \n                production-level code in multiple programming languages."),
           TRUE, <<>>),
       AgentStatement("legal_reviewer",
           Lit("Legal Document Expert Reviewer"),
           Lit("Review contracts and legal documents to \n            ensure compliance with applicable laws and \n            highlight potential risks."),
           Lit("You are a legal expert with deep knowledge \n                of contract law, regulatory frameworks, \n                and risk mitigation strategies."),
           TRUE, <<>>) >>

FileSummarizerStatements ==
    << AgentStatement("summarizer_agent",
           Lit("Senior Document Summarizer"),
           Lit("Extract and summarize key insights from provided files in 20 words or less."),
           Lit("You are an expert in document analysis, skilled at extracting \n                 key details, summarizing content, and identifying critical \n                 insights from structured and unstructured text."),
           TRUE, <<"file_read_tool">>) >>

ResearcherStatements ==
    << AgentStatement("research_agent",
           Lit("Internet Researcher"),
           Lit("Find the most relevant and recent information about a given topic."),
           Lit("You are a skilled researcher, adept at navigating the internet \n                 and gathering high-quality, reliable information."),
           FALSE, <<"serper_dev_tool">>),
       TaskStatement("research_task",
           Lit("Use the SerperDevTool to search for the \n                   most relevant and recent data about {topic}.Extract the key insights from multiple sources."),
           "research_agent", <<"serper_dev_tool">>,
           Lit("A detailed research report with key insights and source references.")) >>

SummarizerStatements ==
    << AgentStatement("summarizer_agent",
           Lit("Content Summarizer"),
           Lit("Condense the key insights from research into a short and informative summary."),
           Lit("You are an expert in distilling complex information into concise, \n                 easy-to-read summaries."),
           FALSE, <<>>),
       TaskStatement("summarization_task",
           Lit("Summarize the research report into a concise and informative paragraph. Ensure clarity, coherence, and completeness."),
           "summarizer_agent", <<>>,
           Lit("A well-structured summary with the most important insights.")) >>

FactCheckerStatements ==
    << AgentStatement("fact_checker_agent",
           Lit("Fact-Checking Specialist"),
           Lit("Verify the accuracy of information and remove any misleading or false claims."),
           Lit("You are an investigative journalist with a knack for validating facts, \n                 ensuring that only accurate information is published."),
           FALSE, <<"serper_dev_tool">>),
       TaskStatement("fact_checking_task",
           Lit("Verify the summarized information for accuracy using the SerperDevTool. Cross-check facts with reliable sources and correct any errors."),
           "fact_checker_agent", <<"serper_dev_tool">>,
           Lit("A fact-checked, verified summary of the research topic.")) >>

\* A node of a loaded YAML document: a mapping, a string or null.
MapNode(items) == [kind |-> "map", items |-> items, text |-> ""]
StrNode(text) == [kind |-> "str", items |-> <<>>, text |-> text]
NullNode == [kind |-> "null", items |-> <<>>, text |-> ""]

\* node.get(key, ""): a default in place of a missing key.
SubscriptGet(node, key) ==
    IF key \in DOMAIN node.items
    THEN [ok |-> TRUE, value |-> node.items[key], error |-> ""]
    ELSE [ok |-> TRUE, value |-> StrNode(""), error |-> ""]

\* node[key]: KeyError when the mapping has no such key, TypeError when the
\* node is not a mapping.
Subscript(node, key) ==
    IF node.kind = "map"
    THEN IF key \in DOMAIN node.items
         THEN [ok |-> TRUE, value |-> node.items[key], error |-> ""]
         ELSE [ok |-> FALSE, value |-> NullNode, error |-> "KeyError: '" \o key \o "'"]
    ELSE IF node.kind = "null"
         THEN [ok |-> FALSE, value |-> NullNode,
               error |-> "TypeError: 'NoneType' object is not subscriptable"]
         ELSE [ok |-> FALSE, value |-> NullNode,
               error |-> "TypeError: string indices must be integers"]

\* The value of an argument: the literal, or config[section][name][field]
\* evaluated from left to right; the first failing subscription raises.
Evaluate(arg, cfg) ==
    IF arg.lit
    THEN [ok |-> TRUE, value |-> StrNode(arg.text), error |-> ""]
    ELSE LET a == Subscript(cfg[1], arg.path[1])
         IN  IF ~a.ok THEN a
             ELSE LET b == Subscript(a.value, arg.path[2])
                  IN  IF ~b.ok THEN b ELSE Subscript(b.value, arg.path[3])

\* config.pop(section): the section is taken out of the mapping.
AfterEvaluatePop(cfg, arg) ==
    Some(MapNode([k \in DOMAIN cfg[1].items \ {arg.path[1]} |-> cfg[1].items[k]]))

\* The mapping after a subscription has been evaluated: a subscription
\* reads the mapping and leaves it as it is.
AfterEvaluate(cfg, arg) == cfg

\* The first argument of the statement whose evaluation raises, 0 if none.
FirstFailure(stmt, cfg) ==
    LET bad == {i \in DOMAIN stmt.texts : ~Evaluate(stmt.texts[i], cfg).ok}
    IN  IF bad = {} THEN 0 ELSE CHOOSE i \in bad : \A j \in bad : i <= j

\* The first statement of the cell that raises, 0 if none.
Stop(stmts, cfg) ==
    LET bad == {i \in DOMAIN stmts : FirstFailure(stmts[i], cfg) # 0}
    IN  IF bad = {} THEN 0 ELSE CHOOSE i \in bad : \A j \in bad : i <= j

\* The number of statements of the cell that complete.
Executed(stmts, cfg) == IF Stop(stmts, cfg) = 0 THEN Len(stmts) ELSE Stop(stmts, cfg) - 1

\* Agent(...) and Task(...): the framework object of a statement, given the
\* globals at the statement; an agent without llm= holds no handle of the
\* notebook (the framework chooses its default client).
Construct(stmt, id, cfg, globals) ==
    IF stmt.kind = "agent"
    THEN [kind |-> "agent", id |-> id,
          role |-> Evaluate(stmt.texts[1], cfg).value.text,
          goal |-> Evaluate(stmt.texts[2], cfg).value.text,
          backstory |-> Evaluate(stmt.texts[3], cfg).value.text,
          llm |-> IF stmt.passes_llm THEN nb_llm ELSE None,
          tools |-> stmt.tools]
    ELSE [kind |-> "task", id |-> id,
          description |-> Evaluate(stmt.texts[1], cfg).value.text,
          expected_output |-> Evaluate(stmt.texts[2], cfg).value.text,
          agent |-> globals[stmt.agent][1].id,
          tools |-> stmt.tools]

\* The globals after the first n statements of the cell.
RECURSIVE GlobalsAfter(_, _, _)
GlobalsAfter(stmts, n, cfg) ==
    IF n = 0 THEN ns
    ELSE LET before == GlobalsAfter(stmts, n - 1, cfg)
         IN  [before EXCEPT ![stmts[n].var] =
                 Some(Construct(stmts[n], oid + n, cfg, before))]

\* The arguments the cell evaluates, in order: those of the statements that
\* complete and, of the statement that raises, those up to the failing one.
RECURSIVE ArgsOf(_, _)
ArgsOf(stmts, n) == IF n = 0 THEN <<>> ELSE ArgsOf(stmts, n - 1) \o stmts[n].texts

EvaluatedArgs(stmts, cfg) ==
    LET stop == Stop(stmts, cfg)
    IN  IF stop = 0 THEN ArgsOf(stmts, Len(stmts))
        ELSE ArgsOf(stmts, stop - 1)
                \o SubSeq(stmts[stop].texts, 1, FirstFailure(stmts[stop], cfg))

\* The mapping after the cell has evaluated its arguments.
RECURSIVE ConfigAfter(_, _)
ConfigAfter(cfg, args) ==
    IF args = <<>> THEN cfg
    ELSE ConfigAfter(IF Head(args).lit THEN cfg ELSE AfterEvaluate(cfg, Head(args)),
                     Tail(args))

\* A cell of definitions runs its statements in order and stops at the
\* first one that raises; the statements before it have bound their names.
RunStatements(stmts, next) ==
    /\ LET stop == Stop(stmts, config)
           done == Executed(stmts, config)
       IN  /\ ns' = GlobalsAfter(stmts, done, config)
           /\ oid' = oid + done
           /\ built' = [i \in 1..done |-> stmts[i].var]
           /\ config' = ConfigAfter(config, EvaluatedArgs(stmts, config))
           /\ IF stop = 0
              THEN cell' = next /\ nb_error' = nb_error
              ELSE /\ cell' = "fatal"
                   /\ nb_error' = Evaluate(stmts[stop].texts[FirstFailure(stmts[stop], config)],
                                           config).error
    /\ UNCHANGED <<trace, running, yaml_file, fh, loads, nb_llm>>
    /\ UNCHANGED notCrewVars

\* Cell "Configure LLM" of the crews notebook.
CrewConfigureLLM ==
    /\ cell = "configure_llm"
    /\ nb_llm' = Some([model |-> "ollama/gemma3n:latest",
                       base_url |-> Configured("OLLAMA_API_BASE")])
    /\ cell' = "define_agents"
    /\ UNCHANGED <<ns, oid, trace, running, yaml_file, fh, config, loads, built, nb_error>>
    /\ UNCHANGED notCrewVars

\* Cell "Define Agents".
DefineAgents ==
    /\ cell = "define_agents"
    /\ RunStatements(DefineAgentsStatements, "define_file_summarizer")

\* Cell "Create a Summarizer Agent" of the file summary.
DefineFileSummarizer ==
    /\ cell = "define_file_summarizer"
    /\ RunStatements(FileSummarizerStatements, "define_researcher")

\* Cell of the research agent and its task.
DefineResearcher ==
    /\ cell = "define_researcher"
    /\ RunStatements(ResearcherStatements, "define_summarizer")

\* Cell of the summarizer agent and its task.
DefineSummarizer ==
    /\ cell = "define_summarizer"
    /\ RunStatements(SummarizerStatements, "define_fact_checker")

\* Cell of the fact checker agent and its task.
DefineFactChecker ==
    /\ cell = "define_fact_checker"
    /\ RunStatements(FactCheckerStatements, "create_crew")

\* research_crew = Crew(agents=[...], tasks=[...], process=Process.sequential)
\* of the literal definitions.
ResearchCrewStatement ==
    [agents |-> <<"research_agent", "summarizer_agent", "fact_checker_agent">>,
     tasks |-> <<"research_task", "summarization_task", "fact_checking_task">>,
     process |-> "sequential"]

\* research_crew = Crew(...) of the YAML-based definitions.
YamlCrewStatement ==
    [agents |-> <<"research_agent", "summarizer_agent", "fact_checker_agent">>,
     tasks |-> <<"research_task", "summarization_task", "fact_checking_task">>,
     process |-> "sequential"]

\* Crew(...): the crew holds the objects its arguments name at that moment.
Crew(stmt, id, globals) ==
    [kind |-> "crew", id |-> id,
     agents |-> [i \in DOMAIN stmt.agents |-> globals[stmt.agents[i]][1].id],
     tasks |-> [i \in DOMAIN stmt.tasks |-> globals[stmt.tasks[i]][1]],
     process |-> stmt.process]

CreateCrewFrom(stmt, next) ==
    /\ ns' = [ns EXCEPT !["research_crew"] = Some(Crew(stmt, oid + 1, ns))]
    /\ oid' = oid + 1
    /\ trace' = <<>>
    /\ running' = 0
    /\ cell' = next
    /\ UNCHANGED <<yaml_file, fh, config, loads, built, nb_error, nb_llm>>
    /\ UNCHANGED notCrewVars

\* Cell "Create Multi-Agent Crew Workflow".
CreateCrew ==
    /\ cell = "create_crew"
    /\ CreateCrewFrom(ResearchCrewStatement, "kickoff")

\* The first statement of the last cell, the crew of the YAML definitions.
YamlCreateCrew ==
    /\ cell = "yaml_crew"
    /\ CreateCrewFrom(YamlCrewStatement, "yaml_kickoff")

\* The tasks of the crew being kicked off, and how many have finished.
CrewTasks == ns["research_crew"][1].tasks
Finished == Cardinality({i \in DOMAIN trace : trace[i].event = "finish"})

\* The tasks taken from the end of the list.
NextTaskFromEnd(done) == 3 - done

\* Process.sequential: the tasks run one after the other in the order of
\* the task list.
NextTask(done) == done + 1

\* kickoff: the next task of the crew starts.
StartTask ==
    /\ cell \in {"kickoff", "yaml_kickoff"}
    /\ running = 0
    /\ Finished < Len(CrewTasks)
    /\ running' = NextTask(Finished)
    /\ trace' = Append(trace, [task |-> CrewTasks[running'].id,
                               agent |-> CrewTasks[running'].agent, event |-> "start"])
    /\ UNCHANGED <<cell, ns, oid, yaml_file, fh, config, loads, built, nb_error, nb_llm>>
    /\ UNCHANGED notCrewVars

\* kickoff: the task in progress runs to completion.
FinishTask ==
    /\ cell \in {"kickoff", "yaml_kickoff"}
    /\ running # 0
    /\ trace' = Append(trace, [task |-> CrewTasks[running].id,
                               agent |-> CrewTasks[running].agent, event |-> "finish"])
    /\ running' = 0
    /\ UNCHANGED <<cell, ns, oid, yaml_file, fh, config, loads, built, nb_error, nb_llm>>
    /\ UNCHANGED notCrewVars

\* kickoff: the task in progress raises; the exception leaves kickoff and
\* stops the cell.
FailTask ==
    /\ cell \in {"kickoff", "yaml_kickoff"}
    /\ running # 0
    /\ running' = 0
    /\ cell' = "fatal"
    /\ nb_error' = "Exception"
    /\ UNCHANGED <<ns, oid, trace, yaml_file, fh, config, loads, built, nb_llm>>
    /\ UNCHANGED notCrewVars

\* kickoff returns after the last task.
KickoffReturn ==
    /\ cell \in {"kickoff", "yaml_kickoff"}
    /\ running = 0
    /\ Finished = Len(CrewTasks)
    /\ cell' = IF cell = "kickoff" THEN "load_yaml" ELSE "done"
    /\ UNCHANGED <<ns, oid, trace, running, yaml_file, fh, config, loads, built, nb_error,
                   nb_llm>>
    /\ UNCHANGED notCrewVars

(* ------------------------- the YAML configuration ---------------------- *)
MaxMissing == 1
MaxLoads == 2

\* config.yaml as the definitions read it: the sections, the names of each
\* section and the fields of each name.
ConfigNames ==
    [agents |-> <<"research_agent", "summarization_agent", "fact_checker_agent">>,
     tasks |-> <<"research_task", "summarization_task", "fact_checking_task">>]
ConfigFields ==
    [agents |-> <<"role", "goal", "backstory">>,
     tasks |-> <<"description", "expected_output">>]

\* A line "key:" or "key: value" of the file, indented by indent blanks.
Line(indent, key, value) == [indent |-> indent, key |-> key, value |-> value]

NameLines(section, n) ==
    LET name == ConfigNames[section][n]
    IN  <<Line(2, name, None)>>
          \o [f \in DOMAIN ConfigFields[section] |->
                 Line(4, ConfigFields[section][f],
                      Some(name \o "." \o ConfigFields[section][f]))]

SectionLines(section) ==
    <<Line(0, section, None)>> \o NameLines(section, 1) \o NameLines(section, 2)
        \o NameLines(section, 3)

FullConfig == SectionLines("agents") \o SectionLines("tasks")

\* The last line of the block of line i: the lines after i indented deeper.
BlockEnd(lines, i) ==
    LET after == {j \in DOMAIN lines : j > i /\ lines[j].indent <= lines[i].indent}
    IN  IF after = {} THEN Len(lines)
        ELSE (CHOOSE j \in after : \A k \in after : j <= k) - 1

\* The file without the entries (a line and its block) that start at the
\* lines of gone.
RECURSIVE KeepFrom(_, _, _)
KeepFrom(lines, gone, i) ==
    IF i > Len(lines) THEN <<>>
    ELSE IF \E g \in gone : g <= i /\ i <= BlockEnd(lines, g)
         THEN KeepFrom(lines, gone, i + 1)
         ELSE <<lines[i]>> \o KeepFrom(lines, gone, i + 1)

\* The files of the model: the full document with at most MaxMissing
\* entries left out.
YamlFiles ==
    { KeepFrom(FullConfig, gone, 1) :
        gone \in {g \in SUBSET DOMAIN FullConfig : Cardinality(g) <= MaxMissing} }

\* One handle kept for all loads, at the position the last load left it.
openShared(mode) == fh

\* open("config.yaml", mode): a new handle, at the start of the file unless
\* the mode appends.
open(mode) == IF mode = "a" THEN Len(yaml_file) ELSE 0

\* What a handle at position pos reads up to the end of the file.
FileRead(lines, pos) == SubSeq(lines, pos + 1, Len(lines))

\* yaml.safe_load on a document of nested block mappings: a mapping of the
\* keys at the indentation of the first line, a repeated key keeping its
\* last value; a key without value and without block is null, and so is
\* the empty document.
RECURSIVE safe_load(_)
safe_load(lines) ==
    IF lines = <<>> THEN NullNode
    ELSE LET heads == {i \in DOMAIN lines : lines[i].indent = lines[1].indent}
             keys == {lines[i].key : i \in heads}
             final(k) == CHOOSE i \in heads :
                           /\ lines[i].key = k
                           /\ \A j \in heads : lines[j].key = k => j <= i
         IN  MapNode([k \in keys |->
                 IF lines[final(k)].value # None
                 THEN StrNode(lines[final(k)].value[1])
                 ELSE safe_load(SubSeq(lines, final(k) + 1, BlockEnd(lines, final(k))))])

\* Cell "Load YAML File"; the cell may be run again after its first run.
LoadYaml ==
    /\ \/ cell = "load_yaml"
       \/ loads >= 1 /\ loads < MaxLoads /\ cell \in {"yaml_definitions", "yaml_crew", "done"}
    /\ LET text == FileRead(yaml_file, open("r"))
       IN  /\ config' = Some(safe_load(text))
           /\ fh' = open("r") + Len(text)
    /\ loads' = loads + 1
    /\ cell' = IF cell = "load_yaml" THEN "yaml_definitions" ELSE cell
    /\ UNCHANGED <<ns, oid, trace, running, yaml_file, built, nb_error, nb_llm>>
    /\ UNCHANGED notCrewVars

\* The statements of the cell "Convert Agent Definitions to use YAML Config
\* Details".
YamlStatements ==
    << AgentStatement("research_agent",
           Ref("agents", "research_agent", "role"),
           Ref("agents", "research_agent", "goal"),
           Ref("agents", "research_agent", "backstory"),
           FALSE, <<"serper_dev_tool">>),
       TaskStatement("research_task",
           Ref("tasks", "research_task", "description"),
           "research_agent", <<"serper_dev_tool">>,
           Ref("tasks", "research_task", "expected_output")),
       AgentStatement("summarization_agent",
           Ref("agents", "summarization_agent", "role"),
           Ref("agents", "summarization_agent", "goal"),
           Ref("agents", "summarization_agent", "backstory"),
           FALSE, <<>>),
       AgentStatement("fact_checker_agent",
           Ref("agents", "fact_checker_agent", "role"),
           Ref("agents", "fact_checker_agent", "goal"),
           Ref("agents", "fact_checker_agent", "backstory"),
           FALSE, <<"serper_dev_tool">>),
       TaskStatement("summarization_task",
           Ref("tasks", "summarization_task", "description"),
           "summarization_agent", <<>>,
           Ref("tasks", "summarization_task", "expected_output")),
       TaskStatement("fact_checking_task",
           Ref("tasks", "fact_checking_task", "description"),
           "fact_checker_agent", <<"serper_dev_tool">>,
           Ref("tasks", "fact_checking_task", "expected_output")) >>

YamlDefinitions ==
    /\ cell = "yaml_definitions"
    /\ RunStatements(YamlStatements, "yaml_crew")

\* The tool notebook is not run.
ToolIdle ==
    /\ env = [v \in EnvVars |-> None]
    /\ dotenv = [v \in EnvVars |-> None]
    /\ pc = "idle"
    /\ error = ""
    /\ OLLAMA_API_BASE = None
    /\ llm = None
    /\ api_key = None
    /\ tool = None
    /\ nCalls = 0
    /\ nGets = 0
    /\ last = None
    /\ rejected = 0

\* The crews notebook after its cell "Load Environment Variables" has run
\* with OLLAMA_API_BASE set, with config.yaml being one of the files.
InitCrew ==
    /\ cell = "configure_llm"
    /\ ns = [n \in Names |-> None]
    /\ oid = 0
    /\ trace = <<>>
    /\ running = 0
    /\ yaml_file \in YamlFiles
    /\ fh = 0
    /\ config = None
    /\ loads = 0
    /\ built = <<>>
    /\ nb_error = ""
    /\ nb_llm = None
    /\ ToolIdle
    /\ RegIdle
    /\ RepIdle
    /\ AuditIdle
    /\ ConnIdle
    /\ SaveIdle

\* The other components are not run.
NotRegIdle == ToolIdle /\ CrewIdle /\ RepIdle /\ AuditIdle /\ ConnIdle /\ SaveIdle
NotAuditIdle == ToolIdle /\ CrewIdle /\ RegIdle /\ RepIdle /\ ConnIdle /\ SaveIdle
NotConnIdle == ToolIdle /\ CrewIdle /\ RegIdle /\ RepIdle /\ AuditIdle /\ SaveIdle
NotSaveIdle == ToolIdle /\ CrewIdle /\ RegIdle /\ RepIdle /\ AuditIdle /\ ConnIdle

NextCrew ==
    \/ CrewConfigureLLM
    \/ DefineAgents
    \/ DefineFileSummarizer
    \/ DefineResearcher
    \/ DefineSummarizer
    \/ DefineFactChecker
    \/ CreateCrew
    \/ StartTask
    \/ FinishTask
    \/ FailTask
    \/ KickoffReturn
    \/ LoadYaml
    \/ YamlDefinitions
    \/ YamlCreateCrew

SpecCrew == InitCrew /\ [][NextCrew]_vars

(* ------------------ properties of the crews notebook ------------------- *)
\* C13: while a research crew is kicked off, the events of its tasks are a
\* prefix of: research starts, research finishes, summarization starts,
\* summarization finishes, fact-checking starts, fact-checking finishes; so
\* a stage starts only after the one before it has finished and no two
\* stages are in progress together.
C13_StagesInOrder ==
    cell \in {"kickoff", "yaml_kickoff"} =>
        LET stages == <<ns["research_task"][1].id, ns["summarization_task"][1].id,
                        ns["fact_checking_task"][1].id>>
        IN  /\ Len(trace) <= 6
            /\ \A i \in DOMAIN trace :
                  /\ trace[i].task = stages[(i + 1) \div 2]
                  /\ trace[i].event = IF i % 2 = 1 THEN "start" ELSE "finish"
            /\ (running # 0) = (Len(trace) % 2 = 1)

\* The crew of the YAML definitions has run its three stages.
C13_Witness ==
    /\ cell = "yaml_kickoff"
    /\ Len(trace) = 6
    /\ trace[5].task = ns["fact_checking_task"][1].id
    /\ trace[5].event = "start"

\* C14: every task of the research crew has as its agent a member of the
\* agent list of the crew, for the literal crew and for the YAML-based one.
C14_TaskAgentsAreCrewAgents ==
    ns["research_crew"] # None =>
        LET crew == ns["research_crew"][1]
        IN  \A i \in DOMAIN crew.tasks :
                \E j \in DOMAIN crew.agents : crew.agents[j] = crew.tasks[i].agent

C16_LoadIdempotent ==
    [][(loads >= 1 /\ loads' = loads + 1) =>
          /\ config' = config
          /\ ns' = ns
          /\ built' = built
          /\ oid' = oid
          /\ trace' = trace]_vars

\* The file was loaded a second time after the YAML crew had been built and
\* run.
C16_Witness ==
    /\ loads = 2
    /\ cell = "done"
    /\ config # None
    /\ config[1].kind = "map"
    /\ ns["research_crew"] # None

\* The document has the field the path names.
PathPresent(doc, path) ==
    /\ doc.kind = "map"
    /\ path[1] \in DOMAIN doc.items
    /\ doc.items[path[1]].kind = "map"
    /\ path[2] \in DOMAIN doc.items[path[1]].items
    /\ doc.items[path[1]].items[path[2]].kind = "map"
    /\ path[3] \in DOMAIN doc.items[path[1]].items[path[2]].items

\* The lookup error of a path that is not present: the first key that its
\* mapping does not hold, or the null in the place of a mapping.
NoneTypeError == "TypeError: 'NoneType' object is not subscriptable"
LookupError(doc, path) ==
    IF doc.kind # "map" THEN NoneTypeError
    ELSE IF path[1] \notin DOMAIN doc.items THEN "KeyError: '" \o path[1] \o "'"
    ELSE LET section == doc.items[path[1]]
         IN  IF section.kind # "map" THEN NoneTypeError
             ELSE IF path[2] \notin DOMAIN section.items
                  THEN "KeyError: '" \o path[2] \o "'"
                  ELSE IF section.items[path[2]].kind # "map" THEN NoneTypeError
                       ELSE "KeyError: '" \o path[3] \o "'"

\* C17: once the YAML definitions cell has run on a configuration that
\* lacks a key the cell reads, the notebook has stopped with the lookup
\* error of the first missing read, the cell has bound exactly the names of
\* the statements before that read, and the objects constructed last are
\* those and no others.
C17_MissingKeyStopsConstruction ==
    (loads >= 1 /\ cell # "yaml_definitions") =>
        LET doc == config[1]
            Path(st, a) == YamlStatements[st].texts[a].path
            Reads == {r \in (DOMAIN YamlStatements) \X (1..3) :
                         r[2] \in DOMAIN YamlStatements[r[1]].texts}
            Before(q, r) == q[1] < r[1] \/ (q[1] = r[1] /\ q[2] < r[2])
            MissingReads == {r \in Reads : ~PathPresent(doc, Path(r[1], r[2]))}
        IN  MissingReads # {} =>
                \E r \in MissingReads :
                    /\ \A q \in MissingReads : q = r \/ Before(r, q)
                    /\ cell = "fatal"
                    /\ nb_error = LookupError(doc, Path(r[1], r[2]))
                    /\ built = [i \in 1..(r[1] - 1) |-> YamlStatements[i].var]
                    /\ \A n \in Names :
                          ns[n] # None =>
                             ((ns[n][1].id > oid - Len(built))
                                 <=> (\E i \in DOMAIN built : built[i] = n))

\* goal of summarization_agent is missing: research_agent and research_task
\* are built, summarization_agent and the later objects are not.
C17_Witness ==
    /\ cell = "fatal"
    /\ nb_error = "KeyError: 'goal'"
    /\ built = <<"research_agent", "research_task">>
    /\ ns["summarization_agent"] = None

\* C18: once loaded, the configuration mapping is changed by no step other
\* than a run of the load cell: building the agents, tasks and crew and
\* running the crew leave it as it is.
C18_ConfigReadOnly ==
    [][(config # None /\ loads' = loads) => config' = config]_vars

\* The YAML crew was built and run, and the mapping is still the document.
C18_Witness ==
    /\ cell = "done"
    /\ loads = 1
    /\ Len(trace) = 6
    /\ config = Some(safe_load(yaml_file))
    /\ PathPresent(config[1], <<"tasks", "fact_checking_task", "expected_output">>)

(* ===================== the decorator registry ========================== *)
MaxMethods == 3
MaxInstances == 2

\* The tags a method decorator leaves on a method; "none" is an untagged
\* method.
Tags == {"agent", "task", "none"}

\* The name of the method declared at position j.
MethodName(j) == "m" \o NatStr(j)

\* The classes of the model: up to MaxMethods methods, each tagged as an
\* agent, tagged as a task or untagged, besides the method tagged as the
\* crew assembler.
Classes ==
    UNION { { [j \in 1..n |-> [name |-> MethodName(j), tag |-> t[j]]] :
                 t \in [1..n -> Tags] } : n \in 0..MaxMethods }

\* The names of the methods that carry the tag, in declaration order.
Collect(methods, tag) ==
    LET Tagged(m) == m.tag = tag
        chosen == SelectSeq(methods, Tagged)
    IN  [k \in DOMAIN chosen |-> chosen[k].name]

\* The class decorator: the tagged methods collected into the buckets.
Decorate ==
    /\ registry = None
    /\ registry' = Some([agents |-> Collect(reg_class, "agent"),
                         tasks |-> Collect(reg_class, "task")])
    /\ UNCHANGED <<reg_class, instances, invoked, pipeline>>
    /\ UNCHANGED notRegVars

\* Every construction carried on the lists of the construction before it.
StartListsShared(earlier) ==
    IF earlier = <<>> THEN [agents |-> <<>>, tasks |-> <<>>]
    ELSE [agents |-> earlier[Len(earlier)].agents, tasks |-> earlier[Len(earlier)].tasks]

\* The lists of an instance when its construction begins: empty, whatever
\* instances were constructed earlier.
StartLists(earlier) == [agents |-> <<>>, tasks |-> <<>>]

\* A tagged method invoked twice.
CallTwice(i, name) ==
    << [instance |-> i, method |-> name, args |-> <<"self">>],
       [instance |-> i, method |-> name, args |-> <<"self">>] >>

\* The construction of instance i invokes the tagged method: one call, with
\* self alone.
Call(i, name) == << [instance |-> i, method |-> name, args |-> <<"self">>] >>

\* The object a tagged method returns for instance i.
Result(i, name) == [instance |-> i, method |-> name]

\* The calls of the construction of instance i for the names of a bucket.
RECURSIVE Calls(_, _)
Calls(i, names) ==
    IF names = <<>> THEN <<>> ELSE Call(i, Head(names)) \o Calls(i, Tail(names))

\* ResearchCrew(): the tagged agent methods, then the tagged task methods,
\* are invoked in the order of their buckets and their results are stored
\* in the lists of the instance.
Instantiate ==
    /\ registry # None
    /\ Len(instances) < MaxInstances
    /\ LET i == Len(instances) + 1
           start == StartLists(instances)
           agents == registry[1].agents
           tasks == registry[1].tasks
       IN  /\ instances' = Append(instances,
                  [agents |-> start.agents \o [k \in DOMAIN agents |-> Result(i, agents[k])],
                   tasks |-> start.tasks \o [k \in DOMAIN tasks |-> Result(i, tasks[k])]])
           /\ invoked' = invoked \o Calls(i, agents) \o Calls(i, tasks)
    /\ UNCHANGED <<reg_class, registry, pipeline>>
    /\ UNCHANGED notRegVars

\* The lists the crew assembler of instance i passes to the pipeline.
AssembledFrom(i) == [agents |-> instances[i].agents, tasks |-> instances[i].tasks]

\* instance.crew(): the method tagged as the crew assembler builds the
\* pipeline from the lists of the instance.
AssembleCrew(i) ==
    /\ i \in DOMAIN instances
    /\ pipeline' = Some([instance |-> i, agents |-> AssembledFrom(i).agents,
                         tasks |-> AssembledFrom(i).tasks, process |-> "sequential"])
    /\ UNCHANGED <<reg_class, registry, instances, invoked>>
    /\ UNCHANGED notRegVars

\* The class ResearchCrew as written, before its module is imported.
InitRegistry ==
    /\ reg_class \in Classes
    /\ registry = None
    /\ instances = <<>>
    /\ invoked = <<>>
    /\ pipeline = None
    /\ NotRegIdle

NextRegistry ==
    \/ Decorate
    \/ Instantiate
    \/ \E i \in 1..MaxInstances : AssembleCrew(i)

SpecRegistry == InitRegistry /\ [][NextRegistry]_vars

(* --------------------- properties of the registry ---------------------- *)
\* The position at which the class declares the method of that name.
Position(name) == CHOOSE j \in DOMAIN reg_class : reg_class[j].name = name

\* The list holds one result per method of the class carrying the tag, each
\* of instance i, in the order of declaration.
InDeclarationOrder(list, i, tag) ==
    /\ Len(list) = Cardinality({j \in DOMAIN reg_class : reg_class[j].tag = tag})
    /\ \A k \in DOMAIN list :
          /\ list[k].instance = i
          /\ \E j \in DOMAIN reg_class : reg_class[j].name = list[k].method
          /\ reg_class[Position(list[k].method)].tag = tag
    /\ \A k, l \in DOMAIN list :
          k < l => Position(list[k].method) < Position(list[l].method)

\* C19: every instance of the decorated class, the first and the later
\* ones, has an agent list with one entry per method tagged as agent and a
\* task list with one entry per method tagged as task, each in declaration
\* order and made of that instance's own results.
C19_ListsPerInstantiation ==
    \A i \in DOMAIN instances :
        /\ InDeclarationOrder(instances[i].agents, i, "agent")
        /\ InDeclarationOrder(instances[i].tasks, i, "task")

\* A class with two agent methods around a task method, instantiated twice.
C19_Witness ==
    /\ Len(instances) = 2
    /\ Len(reg_class) = 3
    /\ reg_class[1].tag = "agent"
    /\ reg_class[2].tag = "task"
    /\ reg_class[3].tag = "agent"
    /\ Len(instances[2].agents) = 2
    /\ Len(instances[2].tasks) = 1

\* C20: the construction of each instance has invoked every method tagged
\* as agent or as task exactly once, with self as its only argument, and
\* the pipeline the crew assembler built holds exactly the agent list and
\* the task list of its instance.
C20_OneCallPerTaggedMethod ==
    /\ \A i \in DOMAIN instances :
          \A j \in DOMAIN reg_class :
              reg_class[j].tag \in {"agent", "task"} =>
                  LET calls == {k \in DOMAIN invoked :
                                   /\ invoked[k].instance = i
                                   /\ invoked[k].method = reg_class[j].name}
                  IN  /\ Cardinality(calls) = 1
                      /\ \A k \in calls : invoked[k].args = <<"self">>
    /\ pipeline # None =>
          /\ pipeline[1].agents = instances[pipeline[1].instance].agents
          /\ pipeline[1].tasks = instances[pipeline[1].instance].tasks

\* The crew of the second instance of a class with an agent and a task.
C20_Witness ==
    /\ pipeline # None
    /\ pipeline[1].instance = 2
    /\ Len(pipeline[1].agents) >= 1
    /\ Len(pipeline[1].tasks) >= 1
    /\ Len(invoked) = 2 * (Len(pipeline[1].agents) + Len(pipeline[1].tasks))

(* ======================= the environment audit ========================= *)
(* check_environment_variables of the custom-tools notebook.  What it      *)
(* prints is a sequence of lines; a line is the sequence of the pieces its *)
(* f-string is built from, the literal parts and the interpolated values,  *)
(* so a text contains a value when one of its pieces is that value.        *)
(***************************************************************************)
MaxAudits == 2

\* env_vars: the providers and their variables, in declaration order.
env_vars ==
    << [provider |-> "OpenAI", vars |-> <<"OPENAI_API_KEY", "OPENAI_BASE_URL">>],
       [provider |-> "Anthropic", vars |-> <<"ANTHROPIC_API_KEY">>],
       [provider |-> "Google", vars |-> <<"GOOGLE_API_KEY", "GOOGLE_APPLICATION_CREDENTIALS">>],
       [provider |-> "Cohere", vars |-> <<"COHERE_API_KEY">>],
       [provider |-> "Hugging Face", vars |-> <<"HUGGINGFACE_API_KEY", "HF_TOKEN">>],
       [provider |-> "Ollama", vars |-> <<"OLLAMA_API_BASE", "OLLAMA_HOST">>],
       [provider |-> "Azure OpenAI", vars |-> <<"AZURE_OPENAI_API_KEY", "AZURE_OPENAI_ENDPOINT">>],
       [provider |-> "AWS Bedrock",
        vars |-> <<"AWS_ACCESS_KEY_ID", "AWS_SECRET_ACCESS_KEY", "AWS_REGION">>],
       [provider |-> "Together AI", vars |-> <<"TOGETHER_API_KEY">>],
       [provider |-> "Replicate", vars |-> <<"REPLICATE_API_TOKEN">>],
       [provider |-> "Perplexity", vars |-> <<"PERPLEXITYAI_API_KEY">>],
       [provider |-> "Groq", vars |-> <<"GROQ_API_KEY">>] >>

\* The variables the table lists.
ListedVars == UNION { {env_vars[i].vars[j] : j \in DOMAIN env_vars[i].vars} : i \in DOMAIN env_vars }

\* The process environments of the audit: four of the listed variables are
\* unset, empty or set to a value, the others are unset.
AuditEnvs ==
    { [v \in ListedVars |->
          IF v = "OPENAI_API_KEY" THEN a
          ELSE IF v = "OPENAI_BASE_URL" THEN b
          ELSE IF v = "OLLAMA_API_BASE" THEN c
          ELSE IF v = "GROQ_API_KEY" THEN d
          ELSE None] :
      a \in {None, Some(""), Some("sk-live-1"), Some("sk-live-2")},
      b \in {None, Some(""), Some("https://api.openai.com/v1")},
      c \in {None, Some(""), Some("http://localhost:11434")},
      d \in {None, Some("gsk-1")} }

\* The status texts; the module is ASCII, so U+2705 (white heavy check
\* mark) and U+274C (cross mark) are written by their code points.
SetText == "U+2705 Set"
NotSetText == "U+274C Not set"

\* The status showing the value of a variable that is set.
StatusShowingValue(e, var) ==
    IF Truthy(os_getenv(e, var)) THEN os_getenv(e, var)[1] ELSE NotSetText

\* provider_vars[var]: "if value:" takes None and "" as not set.
Status(e, var) ==
    IF Truthy(os_getenv(e, var)) THEN SetText ELSE NotSetText

\* has_any_var taking a provider only when all its variables are set.
has_all_vars(e, vars_list) ==
    \A j \in DOMAIN vars_list : Truthy(os_getenv(e, vars_list[j]))

\* has_any_var after the inner loop: some variable of the provider is set.
has_any_var(e, vars_list) ==
    \E j \in DOMAIN vars_list : Truthy(os_getenv(e, vars_list[j]))

\* The lines printed for one provider: nothing when none of its variables
\* is set, else f"\n{provider}:" and f"  {var}: {status}" for each variable.
ProviderLines(e, entry) ==
    IF has_any_var(e, entry.vars)
    THEN << <<"\n", entry.provider, ":">> >>
            \o [j \in DOMAIN entry.vars |->
                   <<"  ", entry.vars[j], ": ", Status(e, entry.vars[j])>>]
    ELSE <<>>

\* The lines of the outer loop from entry i of env_vars on.
RECURSIVE LoopLines(_, _)
LoopLines(e, i) ==
    IF i > Len(env_vars) THEN <<>>
    ELSE ProviderLines(e, env_vars[i]) \o LoopLines(e, i + 1)

\* found_providers after the outer loop from entry i on.
RECURSIVE found_providers(_, _)
found_providers(e, i) ==
    IF i > Len(env_vars) THEN <<>>
    ELSE (IF has_any_var(e, env_vars[i].vars) THEN <<env_vars[i].provider>> ELSE <<>>)
            \o found_providers(e, i + 1)

\* ', '.join(names)
RECURSIVE JoinComma(_)
JoinComma(names) ==
    IF names = <<>> THEN ""
    ELSE IF Len(names) = 1 THEN names[1]
    ELSE names[1] \o ", " \o JoinComma(Tail(names))

\* The closing lines.
SummaryLines(e) ==
    IF found_providers(e, 1) = <<>>
    THEN << <<"No LLM provider environment variables found.">>,
            <<"Make sure to set the appropriate API keys for your chosen provider.">> >>
    ELSE << <<"\nConfigured providers: ", JoinComma(found_providers(e, 1))>> >>

\* What check_environment_variables() prints in the environment e.
check_environment_variables(e) ==
    << <<"=== Environment Variables Status ===">> >> \o LoopLines(e, 1) \o SummaryLines(e)

\* The cell is run in the environment e.
CheckEnvironment(e) ==
    /\ nAudits < MaxAudits
    /\ LET audit == [env |-> e, out |-> check_environment_variables(e)]
       IN  /\ last_audit' = Some(audit)
           /\ first_audit' = IF first_audit = None THEN Some(audit) ELSE first_audit
    /\ nAudits' = nAudits + 1
    /\ UNCHANGED notAuditVars

InitAudit ==
    /\ AuditIdle
    /\ NotAuditIdle

NextAudit == \E e \in AuditEnvs : CheckEnvironment(e)

SpecAudit == InitAudit /\ [][NextAudit]_vars

(* ------------------ properties of the environment audit ---------------- *)
\* The listed variables that are set to a non-empty value.
SetVars(e) == {v \in ListedVars : e[v] # None /\ e[v] # Some("")}

\* The text has a piece that is the value of a listed variable.
ShowsValue(out, e) ==
    \E k \in DOMAIN out : \E p \in DOMAIN out[k] : \E v \in SetVars(e) : out[k][p] = e[v][1]

\* C21: two runs of check_environment_variables in environments that agree
\* on which listed variables are set to a non-empty value print the same
\* text, and no run prints the value of a variable.
C21_OutputHidesValues ==
    (first_audit # None /\ last_audit # None) =>
        /\ (SetVars(first_audit[1].env) = SetVars(last_audit[1].env)
               => first_audit[1].out = last_audit[1].out)
        /\ ~ShowsValue(last_audit[1].out, last_audit[1].env)

\* Two runs with different keys for OpenAI, Groq set, and the same text.
C21_Witness ==
    /\ nAudits = 2
    /\ first_audit[1].env["OPENAI_API_KEY"] = Some("sk-live-1")
    /\ last_audit[1].env["OPENAI_API_KEY"] = Some("sk-live-2")
    /\ first_audit[1].env["GROQ_API_KEY"] = Some("gsk-1")
    /\ first_audit[1].env["OLLAMA_API_BASE"] = Some("")
    /\ last_audit[1].env["OLLAMA_API_BASE"] = None
    /\ first_audit[1].out = last_audit[1].out
    /\ Len(last_audit[1].out) = 7

\* The entries of env_vars with a variable set to a non-empty value.
ConfiguredEntries(e) ==
    {i \in DOMAIN env_vars : \E j \in DOMAIN env_vars[i].vars : env_vars[i].vars[j] \in SetVars(e)}

\* The names of the configured entries from entry i on, separated by ", ".
RECURSIVE ConfiguredNames(_, _, _)
ConfiguredNames(e, i, sep) ==
    IF i > Len(env_vars) THEN ""
    ELSE IF i \in ConfiguredEntries(e)
         THEN sep \o env_vars[i].provider \o ConfiguredNames(e, i + 1, ", ")
         ELSE ConfiguredNames(e, i + 1, sep)

\* The positions of the header of entry i in the text.
Headers(out, i) == {k \in DOMAIN out : out[k] = <<"\n", env_vars[i].provider, ":">>}

\* C29: the text has the header of a provider exactly when one of its
\* variables is set to a non-empty value, the header once and followed by
\* the status of each variable of the provider, in the order of the table;
\* the headers are in the order of the table; the text ends with the
\* configured providers in that order, or, exactly when there is none, with
\* "No LLM provider environment variables found.".
C29_ConfiguredIffAnySet ==
    last_audit # None =>
        LET e == last_audit[1].env
            out == last_audit[1].out
        IN  /\ \A i \in DOMAIN env_vars :
                  /\ (Headers(out, i) # {}) <=> (i \in ConfiguredEntries(e))
                  /\ Cardinality(Headers(out, i)) <= 1
                  /\ \A k \in Headers(out, i) : \A j \in DOMAIN env_vars[i].vars :
                        /\ k + j <= Len(out)
                        /\ out[k + j] = <<"  ", env_vars[i].vars[j], ": ",
                                          IF env_vars[i].vars[j] \in SetVars(e)
                                          THEN SetText ELSE NotSetText>>
            /\ \A i1, i2 \in ConfiguredEntries(e) :
                  i1 < i2 => \A k1 \in Headers(out, i1), k2 \in Headers(out, i2) : k1 < k2
            /\ (\E k \in DOMAIN out : out[k] = <<"No LLM provider environment variables found.">>)
                  <=> (ConfiguredEntries(e) = {})
            /\ ConfiguredEntries(e) # {} =>
                  out[Len(out)] = <<"\nConfigured providers: ", ConfiguredNames(e, 1, "")>>

\* OpenAI with its key set and its base URL empty, Ollama unset, Groq set.
C29_Witness ==
    /\ last_audit # None
    /\ last_audit[1].env["OPENAI_API_KEY"] = Some("sk-live-1")
    /\ last_audit[1].env["OPENAI_BASE_URL"] = Some("")
    /\ last_audit[1].out =
          << <<"=== Environment Variables Status ===">>,
             <<"\n", "OpenAI", ":">>,
             <<"  ", "OPENAI_API_KEY", ": ", SetText>>,
             <<"  ", "OPENAI_BASE_URL", ": ", NotSetText>>,
             <<"\n", "Groq", ":">>,
             <<"  ", "GROQ_API_KEY", ": ", SetText>>,
             <<"\nConfigured providers: ", "OpenAI, Groq">> >>

(* ===================== the LLM connection test ========================= *)
(* test_llm_connection of the custom-tools notebook.  A text the function  *)
(* searches, slices or lower-cases is a sequence of characters; a printed  *)
(* line is the sequence of the pieces its f-string is built from.  The     *)
(* marks of the report lines are written by their code points: U+2705      *)
(* (check mark), U+274C (cross mark), U+1F4A1 (light bulb).                *)
(***************************************************************************)
MaxTests == 1

\* c.lower() of one character.
Lower(c) ==
    CASE c = "A" -> "a" [] c = "B" -> "b" [] c = "C" -> "c" [] c = "D" -> "d"
      [] c = "E" -> "e" [] c = "F" -> "f" [] c = "G" -> "g" [] c = "H" -> "h"
      [] c = "I" -> "i" [] c = "J" -> "j" [] c = "K" -> "k" [] c = "L" -> "l"
      [] c = "M" -> "m" [] c = "N" -> "n" [] c = "O" -> "o" [] c = "P" -> "p"
      [] c = "Q" -> "q" [] c = "R" -> "r" [] c = "S" -> "s" [] c = "T" -> "t"
      [] c = "U" -> "u" [] c = "V" -> "v" [] c = "W" -> "w" [] c = "X" -> "x"
      [] c = "Y" -> "y" [] c = "Z" -> "z"
      [] OTHER -> c

\* s.lower()
LowerAll(s) == [i \in DOMAIN s |-> Lower(s[i])]

\* needle in hay
Contains(needle, hay) ==
    \E i \in 1..(Len(hay) - Len(needle) + 1) : SubSeq(hay, i, i + Len(needle) - 1) = needle

\* The characters as one string.
RECURSIVE Str(_)
Str(s) == IF s = <<>> THEN "" ELSE s[1] \o Str(Tail(s))

\* s.replace(old, new), for a non-empty old.
RECURSIVE Replace(_, _, _)
Replace(s, old, new) ==
    IF Len(s) < Len(old) THEN s
    ELSE IF SubSeq(s, 1, Len(old)) = old
         THEN new \o Replace(SubSeq(s, Len(old) + 1, Len(s)), old, new)
         ELSE <<s[1]>> \o Replace(Tail(s), old, new)

\* s[:100]
Take100(s) == IF Len(s) <= 100 THEN s ELSE SubSeq(s, 1, 100)

\* The model names of the LLM objects under test: that of the notebook, the
\* commented alternative, and names with the substrings of other or of
\* several providers, in lower and in mixed case.
ModelNames ==
    { <<"o", "l", "l", "a", "m", "a", "/", "g", "e", "m", "m", "a", "3", "n", ":", "l", "a", "t", "e", "s", "t">>,
      <<"g", "p", "t", "-", "4", "o">>,
      <<"G", "P", "T", "-", "4">>,
      <<"a", "z", "u", "r", "e", "/", "O", "p", "e", "n", "A", "I", "-", "o", "3">>,
      <<"c", "l", "a", "u", "d", "e", "-", "3", "-", "o", "p", "u", "s">>,
      <<"b", "e", "d", "r", "o", "c", "k", "/", "A", "n", "t", "h", "r", "o", "p", "i", "c", ".", "v", "2">>,
      <<"g", "e", "m", "i", "n", "i", "-", "p", "r", "o">>,
      <<"G", "o", "o", "g", "l", "e", "/", "p", "a", "l", "m", "-", "2">>,
      <<"O", "l", "l", "a", "m", "a", "/", "g", "p", "t", "-", "o", "s", "s">>,
      <<"C", "l", "a", "u", "d", "e", "-", "G", "P", "T">>,
      <<"g", "e", "m", "i", "n", "i", "/", "c", "l", "a", "u", "d", "e">>,
      <<"m", "i", "s", "t", "r", "a", "l", "/", "m", "i", "s", "t", "r", "a", "l", "-", "l", "a", "r", "g", "e">> }

\* An LLM object: model is None when the object has no such attribute.
LLMs ==
    [model : {None} \cup {Some(m) : m \in ModelNames},
     base_url : {None, Some(""), Some("http://localhost:11434")},
     api_key : {None, Some("sk-live-1")}]

\* getattr(llm, 'model', 'Unknown')
model_name(l) == IF l.model = None THEN <<"U", "n", "k", "n", "o", "w", "n">> ELSE l.model[1]

\* The detection comparing the name as it is written.
DetectProviderCaseSensitive(name) ==
    IF Contains(<<"o", "l", "l", "a", "m", "a">>, name) THEN "ollama"
    ELSE IF Contains(<<"g", "p", "t">>, name) \/ Contains(<<"o", "p", "e", "n", "a", "i">>, name) THEN "openai"
    ELSE IF Contains(<<"c", "l", "a", "u", "d", "e">>, name) \/ Contains(<<"a", "n", "t", "h", "r", "o", "p", "i", "c">>, name) THEN "anthropic"
    ELSE IF Contains(<<"g", "e", "m", "i", "n", "i">>, name) \/ Contains(<<"g", "o", "o", "g", "l", "e">>, name) THEN "google"
    ELSE "unknown"

\* The if/elif chain that determines the provider type.
DetectProvider(name) ==
    LET m == LowerAll(name)
    IN  IF Contains(<<"o", "l", "l", "a", "m", "a">>, m) THEN "ollama"
        ELSE IF Contains(<<"g", "p", "t">>, m) \/ Contains(<<"o", "p", "e", "n", "a", "i">>, m) THEN "openai"
        ELSE IF Contains(<<"c", "l", "a", "u", "d", "e">>, m) \/ Contains(<<"a", "n", "t", "h", "r", "o", "p", "i", "c">>, m) THEN "anthropic"
        ELSE IF Contains(<<"g", "e", "m", "i", "n", "i">>, m) \/ Contains(<<"g", "o", "o", "g", "l", "e">>, m) THEN "google"
        ELSE "unknown"

\* provider.title()
Title(p) ==
    CASE p = "ollama" -> "Ollama" [] p = "openai" -> "Openai"
      [] p = "anthropic" -> "Anthropic" [] p = "google" -> "Google"
      [] p = "unknown" -> "Unknown"

\* The lines of the configuration analysis.
AnalysisLines(l) ==
    << <<"=== LLM Configuration Analysis ===">>,
       <<"Model: ", Str(model_name(l))>>,
       <<"Base URL: ", IF Truthy(l.base_url) THEN l.base_url[1]
                       ELSE "Default (provider-specific)">>,
       <<"API Key Set: ", IF Truthy(l.api_key) THEN "Yes" ELSE "No">>,
       <<"Detected Provider: ", DetectProvider(model_name(l))>>,
       <<"\n=== ", Title(DetectProvider(model_name(l))), " Connection Test ===">> >>

\* "if provider == 'ollama' and base_url": the branch of the server probe.
ProbeBranch(p, l) == p = "ollama" /\ Truthy(l.base_url)

\* What requests.get(test_url, timeout=5) and response.json() give: a raised
\* exception, or a response with a status code and a body that is JSON with
\* a list of models or is not JSON.
ProbeError(message) ==
    [kind |-> "error", status |-> 0, json_ok |-> FALSE, models |-> <<>>, message |-> message]
ProbeResponse(status, json_ok, models) ==
    [kind |-> "http", status |-> status, json_ok |-> json_ok, models |-> models,
     message |-> "Expecting value: line 1 column 1 (char 0)"]
ProbeResponses ==
    { ProbeError("Connection refused"),
      ProbeResponse(200, TRUE, <<>>),
      ProbeResponse(200, TRUE, << <<"{", "'", "n", "a", "m", "e", "'", ":", " ", "'", "g", "e", "m", "m", "a", "3", "n", ":", "l", "a", "t", "e", "s", "t", "'", "}">>, <<"{", "'", "n", "a", "m", "e", "'", ":", " ", "'", "l", "l", "a", "m", "a", "3", ":", "l", "a", "t", "e", "s", "t", "'", "}">> >>),
      ProbeResponse(200, FALSE, <<>>),
      ProbeResponse(204, FALSE, <<>>),
      ProbeResponse(500, FALSE, <<>>) }

\* The lines of the Ollama branch: the try block up to the statement that
\* raises, and the line of the except clause.
ProbeLines(name, response) ==
    LET failed(message) == << <<"U+274C Ollama server connection failed: ", message>> >>
    IN  IF response.kind = "error" THEN failed(response.message)
        ELSE << <<"Ollama Server Status: ", NatStr(response.status)>> >>
             \o (IF response.status = 200
                 THEN IF ~response.json_ok THEN failed(response.message)
                      ELSE << <<"Available Models: ", NatStr(Len(response.models)), " found">>,
                              <<"Target Model Available: ",
                                IF \E i \in DOMAIN response.models :
                                      Contains(Replace(name, <<"o", "l", "l", "a", "m", "a", "/">>, <<>>), response.models[i])
                                THEN "Yes" ELSE "No">> >>
                 ELSE << <<"Ollama server responded with status: ",
                           NatStr(response.status)>> >>)

\* The lines of the openai, anthropic and google branches.
KeyLines(p, api_key_env) ==
    LET has == IF Truthy(api_key_env) THEN "Set" ELSE "Not set"
    IN  CASE p = "openai" ->
               << <<"OpenAI connection test (API key validation happens during LLM call)">>,
                  <<"OPENAI_API_KEY environment variable: ", has>> >>
          [] p = "anthropic" ->
               << <<"Anthropic connection test">>,
                  <<"ANTHROPIC_API_KEY environment variable: ", has>> >>
          [] p = "google" ->
               << <<"Google AI connection test">>,
                  <<"GOOGLE_API_KEY environment variable: ", has>> >>

\* What llm.call(...) gives: a string, an object with a content attribute,
\* another object, or a raised exception with its message and type name.
LLMResult(kind, text, type_name) == [kind |-> kind, text |-> text, type_name |-> type_name]
LLMResults ==
    { LLMResult("str", <<"T", "e", "s", "t", " ", "s", "u", "c", "c", "e", "s", "s", "f", "u", "l">>, "<class 'str'>"),
      LLMResult("str", [i \in 1..120 |-> "a"], "<class 'str'>"),
      LLMResult("content", <<"T", "e", "s", "t", " ", "s", "u", "c", "c", "e", "s", "s", "f", "u", "l">>, "<class 'Message'>"),
      LLMResult("other", <<"[", "'", "T", "e", "s", "t", " ", "s", "u", "c", "c", "e", "s", "s", "f", "u", "l", "'", "]">>, "<class 'list'>"),
      LLMResult("error", <<"C", "o", "n", "n", "e", "c", "t", "i", "o", "n", " ", "r", "e", "f", "u", "s", "e", "d">>, "ConnectionError"),
      LLMResult("error", <<"C", "o", "n", "n", "e", "c", "t", "i", "o", "n", " ", "t", "o", " ", "m", "o", "d", "e", "l", " ", "l", "o", "s", "t">>, "APIConnectionError"),
      LLMResult("error", <<"I", "n", "v", "a", "l", "i", "d", " ", "A", "P", "I", "_", "K", "E", "Y">>, "AuthenticationError"),
      LLMResult("error", <<"M", "o", "d", "e", "l", " ", "n", "o", "t", " ", "f", "o", "u", "n", "d">>, "NotFoundError"),
      LLMResult("error", <<"b", "o", "o", "m">>, "RuntimeError") }

\* The troubleshooting tip of the except clause.
TipLines(text) ==
    LET error_str == LowerAll(text)
    IN  IF Contains(<<"c", "o", "n", "n", "e", "c", "t", "i", "o", "n">>, error_str) \/ Contains(<<"t", "i", "m", "e", "o", "u", "t">>, error_str)
        THEN << <<"U+1F4A1 Tip: Check network connection and base_url configuration">> >>
        ELSE IF Contains(<<"a", "p", "i", "_", "k", "e", "y">>, error_str) \/ Contains(<<"a", "u", "t", "h", "e", "n", "t", "i", "c", "a", "t", "i", "o", "n">>, error_str)
                   \/ Contains(<<"u", "n", "a", "u", "t", "h", "o", "r", "i", "z", "e", "d">>, error_str)
        THEN << <<"U+1F4A1 Tip: Check API key configuration and permissions">> >>
        ELSE IF Contains(<<"m", "o", "d", "e", "l">>, error_str) \/ Contains(<<"n", "o", "t", " ", "f", "o", "u", "n", "d">>, error_str)
        THEN << <<"U+1F4A1 Tip: Verify model name and availability">> >>
        ELSE <<>>

\* The lines of the functionality test.
LLMLines(result) ==
    << <<"\n=== LLM Functionality Test ===">> >>
    \o (IF result.kind = "error"
        THEN << <<"U+274C LLM call failed: ", Str(result.text)>>,
                <<"Error type: ", result.type_name>> >> \o TipLines(result.text)
        ELSE << <<"U+2705 LLM call successful!">>,
                <<"Response type: ", result.type_name>>,
                <<IF result.kind = "content" THEN "Response content: " ELSE "Response: ",
                  Str(Take100(result.text)), "...">> >>)

\* The probe ending the function when the server cannot be reached.
AfterProbeStoppingOnFailure(response) ==
    IF response.kind = "error" THEN "returned" ELSE "llm_test"

\* Where the function goes on after the Ollama branch: the try/except holds
\* every exception of the branch, and the functionality test follows.
AfterProbe(response) == "llm_test"

\* test_llm_connection() is called: the configuration analysis and the
\* provider detection.
StartTest(l) ==
    /\ conn_pc \in {"idle", "returned"}
    /\ nTests < MaxTests
    /\ conn_llm' = Some(l)
    /\ provider' = DetectProvider(model_name(l))
    /\ branch' = ""
    /\ printed' = AnalysisLines(l)
    /\ events' = <<>>
    /\ nTests' = nTests + 1
    /\ conn_pc' = "provider_step"
    /\ UNCHANGED notConnVars

\* The Ollama branch: the server probe, with what the server answers.
OllamaProbe(response) ==
    /\ conn_pc = "provider_step"
    /\ ProbeBranch(provider, conn_llm[1])
    /\ branch' = "ollama"
    /\ printed' = printed \o ProbeLines(model_name(conn_llm[1]), response)
    /\ events' = Append(events, [op |-> "probe", result |-> response])
    /\ conn_pc' = AfterProbe(response)
    /\ UNCHANGED <<conn_llm, provider, nTests>>
    /\ UNCHANGED notConnVars

\* The openai, anthropic and google branches: the key variable is read.
KeyCheck(api_key_env) ==
    /\ conn_pc = "provider_step"
    /\ ~ProbeBranch(provider, conn_llm[1])
    /\ provider \in {"openai", "anthropic", "google"}
    /\ branch' = provider
    /\ printed' = printed \o KeyLines(provider, api_key_env)
    /\ conn_pc' = "llm_test"
    /\ UNCHANGED <<conn_llm, provider, events, nTests>>
    /\ UNCHANGED notConnVars

\* The else branch.
GenericStep ==
    /\ conn_pc = "provider_step"
    /\ ~ProbeBranch(provider, conn_llm[1])
    /\ provider \notin {"openai", "anthropic", "google"}
    /\ branch' = "generic"
    /\ printed' = Append(printed, <<"Generic provider - will test with LLM call only">>)
    /\ conn_pc' = "llm_test"
    /\ UNCHANGED <<conn_llm, provider, events, nTests>>
    /\ UNCHANGED notConnVars

\* The functionality test: llm.call, with what it gives; the function
\* returns.
LLMTest(result) ==
    /\ conn_pc = "llm_test"
    /\ printed' = printed \o LLMLines(result)
    /\ events' = Append(events, [op |-> "llm_call", result |-> result])
    /\ conn_pc' = "returned"
    /\ UNCHANGED <<conn_llm, provider, branch, nTests>>
    /\ UNCHANGED notConnVars

InitConn ==
    /\ ConnIdle
    /\ NotConnIdle

NextConn ==
    \/ \E l \in LLMs : StartTest(l)
    \/ \E response \in ProbeResponses : OllamaProbe(response)
    \/ \E api_key_env \in {None, Some(""), Some("sk-live-1")} : KeyCheck(api_key_env)
    \/ GenericStep
    \/ \E result \in LLMResults : LLMTest(result)

SpecConn == InitConn /\ [][NextConn]_vars

(* ---------------- properties of the LLM connection test ---------------- *)
\* The lower-cased model name of the LLM under test has the substring.
NameHas(sub) == Contains(sub, LowerAll(model_name(conn_llm[1])))

\* C27: once the provider is detected it is the first of ollama, openai,
\* anthropic, google whose substrings ("ollama"; "gpt" or "openai";
\* "claude" or "anthropic"; "gemini" or "google") occur in the model name
\* with case ignored, and "unknown" when none occurs; the server probe is
\* the branch taken exactly when the provider is ollama and a base URL is
\* set, and an ollama model without a base URL takes the generic branch.
C27_ProviderByPriority ==
    conn_pc # "idle" =>
        LET ollama == NameHas(<<"o", "l", "l", "a", "m", "a">>)
            openai == NameHas(<<"g", "p", "t">>) \/ NameHas(<<"o", "p", "e", "n", "a", "i">>)
            anthropic == NameHas(<<"c", "l", "a", "u", "d", "e">>) \/ NameHas(<<"a", "n", "t", "h", "r", "o", "p", "i", "c">>)
            google == NameHas(<<"g", "e", "m", "i", "n", "i">>) \/ NameHas(<<"g", "o", "o", "g", "l", "e">>)
        IN  /\ provider \in {"ollama", "openai", "anthropic", "google", "unknown"}
            /\ (provider = "ollama") <=> ollama
            /\ (provider = "openai") <=> (~ollama /\ openai)
            /\ (provider = "anthropic") <=> (~ollama /\ ~openai /\ anthropic)
            /\ (provider = "google") <=> (~ollama /\ ~openai /\ ~anthropic /\ google)
            /\ (provider = "unknown") <=> (~ollama /\ ~openai /\ ~anthropic /\ ~google)
            /\ conn_pc \in {"llm_test", "returned"} =>
                  /\ (branch = "ollama")
                        <=> (provider = "ollama" /\ conn_llm[1].base_url \notin {None, Some("")})
                  /\ (\E i \in DOMAIN events : events[i].op = "probe") <=> (branch = "ollama")
                  /\ (provider = "ollama" /\ conn_llm[1].base_url \in {None, Some("")}) =>
                        /\ branch = "generic"
                        /\ \E k \in DOMAIN printed :
                              printed[k] = <<"Generic provider - will test with LLM call only">>

\* "Ollama/gpt-oss" with an empty base URL: ollama is detected before
\* openai, in mixed case, and the generic branch is taken.
C27_Witness ==
    /\ conn_pc = "returned"
    /\ conn_llm[1].model = Some(<<"O", "l", "l", "a", "m", "a", "/", "g", "p", "t", "-", "o", "s", "s">>)
    /\ conn_llm[1].base_url = Some("")
    /\ provider = "ollama"
    /\ branch = "generic"
    /\ events[1].op = "llm_call"

\* C28: when the function has returned, llm.call was made exactly once,
\* after the provider-specific step, whatever the server probe gave; an
\* exception of the probe or of llm.call is on a printed line; and the
\* function returns from every provider-specific step and every call.
C28_LLMCallAlwaysOnce ==
    /\ conn_pc = "returned" =>
          /\ branch # ""
          /\ Len(events) \in {1, 2}
          /\ events[Len(events)].op = "llm_call"
          /\ \A i \in 1..(Len(events) - 1) : events[i].op = "probe"
          /\ \A i \in DOMAIN events :
                /\ (events[i].op = "probe"
                      /\ (events[i].result.kind = "error"
                             \/ (events[i].result.status = 200 /\ ~events[i].result.json_ok))) =>
                      \E k \in DOMAIN printed :
                          printed[k] = <<"U+274C Ollama server connection failed: ",
                                         events[i].result.message>>
                /\ (events[i].op = "llm_call" /\ events[i].result.kind = "error") =>
                      \E k \in DOMAIN printed :
                          printed[k] = <<"U+274C LLM call failed: ",
                                         Str(events[i].result.text)>>
    /\ conn_pc = "llm_test" =>
          /\ branch # ""
          /\ \A i \in DOMAIN events : events[i].op = "probe"
    /\ conn_pc \in {"idle", "provider_step", "llm_test", "returned"}

\* The probe raised, llm.call was made and raised too, and the function
\* returned with both failures printed.
C28_Witness ==
    /\ conn_pc = "returned"
    /\ Len(events) = 2
    /\ events[1].op = "probe"
    /\ events[1].result.kind = "error"
    /\ events[2].op = "llm_call"
    /\ events[2].result.kind = "error"
    /\ printed[7] = <<"U+274C Ollama server connection failed: ", "Connection refused">>
    /\ printed[Len(printed)]
          = <<"U+1F4A1 Tip: Check network connection and base_url configuration">>

(* ========================= the save cell =============================== *)
(* The cell of the crews notebook that writes response.raw to              *)
(* ../build/output.md, after the cell that kicks off the writer crew.  A   *)
(* text is a sequence of blocks; the file object buffers what is written   *)
(* and hands the operating system a prefix of it before close() hands over *)
(* the rest.                                                               *)
(***************************************************************************)
MaxSaves == 2

\* The raw texts crew.kickoff may return.
RawTexts ==
    { <<>>,
      <<"# AI Agents\n">>,
      <<"# AI Agents\n", "Agents plan and act.\n">> }

\* What ../build/output.md holds before the cell is run: no file, an empty
\* file, or a text longer than any the crew returns.
EarlierContents == {None, Some(<<>>), Some(<<"# Draft\n", "old text\n", "old tail\n">>)}

\* open(path, "a"): the content stays and writes go to its end.
OpenForAppending(content) == IF content = None THEN <<>> ELSE content[1]

\* open(path, "w") creates the file or truncates it.
OpenForWriting(content) == <<>>

\* Cell "Create a Crew and Execute the Task": response is what
\* crew.kickoff returns.
WriterKickoff(raw) ==
    /\ save_pc = "ready"
    /\ nSaves < MaxSaves
    /\ crew_response' = Some([raw |-> raw])
    /\ UNCHANGED <<save_pc, build_exists, disk, overwritten, f_handle, nSaves>>
    /\ UNCHANGED notSaveVars

\* f = open("../build/output.md", "w"): FileNotFoundError when ../build is
\* not there.
SaveOpen ==
    /\ save_pc = "ready"
    /\ nSaves < MaxSaves
    /\ IF build_exists
       THEN /\ overwritten' = disk
            /\ disk' = Some(OpenForWriting(disk))
            /\ f_handle' = Some([closed |-> FALSE, buffer |-> <<>>])
            /\ save_pc' = "opened"
       ELSE /\ save_pc' = "failed"
            /\ UNCHANGED <<overwritten, disk, f_handle>>
    /\ UNCHANGED <<crew_response, build_exists, nSaves>>
    /\ UNCHANGED notSaveVars

\* f.write(response.raw): NameError when no kickoff has bound response;
\* else the text goes to the buffer and the first flushed blocks of it to
\* the file.
SaveWrite(flushed) ==
    /\ save_pc = "opened"
    /\ IF crew_response = None
       THEN /\ save_pc' = "failed"
            /\ UNCHANGED <<disk, f_handle>>
       ELSE /\ flushed <= Len(crew_response[1].raw)
            /\ disk' = Some(disk[1] \o SubSeq(crew_response[1].raw, 1, flushed))
            /\ f_handle' = Some([closed |-> FALSE,
                                 buffer |-> SubSeq(crew_response[1].raw, flushed + 1,
                                                   Len(crew_response[1].raw))])
            /\ save_pc' = "written"
    /\ UNCHANGED <<crew_response, build_exists, overwritten, nSaves>>
    /\ UNCHANGED notSaveVars

\* f.close(): the buffer is flushed and the handle closed; the cell is done.
SaveClose ==
    /\ save_pc = "written"
    /\ disk' = Some(disk[1] \o f_handle[1].buffer)
    /\ f_handle' = Some([closed |-> TRUE, buffer |-> <<>>])
    /\ nSaves' = nSaves + 1
    /\ save_pc' = "ready"
    /\ UNCHANGED <<crew_response, build_exists, overwritten>>
    /\ UNCHANGED notSaveVars

\* The kernel dies while the cell runs: what the buffer holds is lost and
\* the handle is never closed.
SaveCrash ==
    /\ save_pc \in {"opened", "written"}
    /\ save_pc' = "crashed"
    /\ UNCHANGED <<crew_response, build_exists, disk, overwritten, f_handle, nSaves>>
    /\ UNCHANGED notSaveVars

InitSave ==
    /\ save_pc = "ready"
    /\ crew_response = None
    /\ build_exists \in BOOLEAN
    /\ disk \in EarlierContents
    /\ build_exists = FALSE => disk = None
    /\ overwritten = None
    /\ f_handle = None
    /\ nSaves = 0
    /\ NotSaveIdle

NextSave ==
    \/ \E raw \in RawTexts : WriterKickoff(raw)
    \/ SaveOpen
    \/ \E flushed \in 0..2 : SaveWrite(flushed)
    \/ SaveClose
    \/ SaveCrash

SpecSave == InitSave /\ [][NextSave]_vars

(* --------------------- properties of the save cell --------------------- *)
\* s is the beginning of t.
IsPrefix(s, t) == Len(s) <= Len(t) /\ s = SubSeq(t, 1, Len(s))

\* C22: a run of the save cell that completes leaves in the file exactly
\* the raw text of the response, whatever the file held before, with the
\* handle closed; and while the cell has not completed, or after a crash
\* in it, the file holds a beginning of that text and the handle is open.
C22_SaveOverwrites ==
    /\ [][(save_pc = "written" /\ save_pc' = "ready") =>
             /\ disk' = Some(crew_response[1].raw)
             /\ f_handle'[1].closed
             /\ f_handle'[1].buffer = <<>>]_vars
    /\ [](save_pc \in {"opened", "written", "crashed"} =>
             /\ f_handle # None
             /\ ~f_handle[1].closed
             /\ disk # None
             /\ crew_response # None => IsPrefix(disk[1], crew_response[1].raw))

\* The file held a longer text, and the completed cell left the raw text
\* of the response alone in it.
C22_Witness ==
    /\ save_pc = "ready"
    /\ nSaves = 1
    /\ overwritten = Some(<<"# Draft\n", "old text\n", "old tail\n">>)
    /\ crew_response = Some([raw |-> <<"# AI Agents\n", "Agents plan and act.\n">>])
    /\ disk = Some(<<"# AI Agents\n", "Agents plan and act.\n">>)
    /\ f_handle[1].closed

\* The kernel died after f.write: one block of two is in the file and the
\* handle is open with the other.
SavePartial ==
    /\ save_pc = "crashed"
    /\ disk = Some(<<"# AI Agents\n">>)
    /\ crew_response = Some([raw |-> <<"# AI Agents\n", "Agents plan and act.\n">>])
    /\ ~f_handle[1].closed
    /\ f_handle[1].buffer = <<"Agents plan and act.\n">>

====
